---- MODULE Spec2Model ----
(***************************************************************************)
(* Model of pymeterreader's meter-communication layer:                     *)
(*   device_lib/common.py        Channel, Sample, Device, strip            *)
(*   device_lib/serial_reader.py SerialReader (handle life cycle)          *)
(*   device_lib/meter_sml.py     SmlReader  (framed binary protocol)       *)
(*   device_lib/meter_plain.py   PlainReader (text handshake protocol)     *)
(* and of gateway/debug.py, DebugGateway.                                  *)
(*                                                                         *)
(* Strings and byte strings are sequences of one-character tokens.  Every  *)
(* public call (poll, _discover, initialize_tty, close_tty) is a blocking  *)
(* call and is one action; what the serial line delivers during the call   *)
(* is the action's input.                                                  *)
(*                                                                         *)
(* Specifications:                                                         *)
(*   Spec        one reader: poll, _discover, initialize_tty, close_tty    *)
(*   IdSpec      strip() and the identity test on pairs of identifiers     *)
(*   DetectSpec  detect() over enumerated candidate ports                  *)
(*   ChunkSpec   poll() of a frame delivered in chunks                     *)
(*   TimeSpec    polls while the clock advances                            *)
(*   GatewaySpec post and get of a DebugGateway                            *)
(***************************************************************************)
EXTENDS Integers, Sequences, FiniteSets, TLC

(***************************************************************************)
(* Characters (common.py:7-8).                                             *)
(***************************************************************************)
Digits == {"0", "1", "2", "3", "4", "5", "6", "7", "8", "9"}

LowerLetters ==
    <<"a", "b", "c", "d", "e", "f", "g", "h", "i", "j", "k", "l", "m",
      "n", "o", "p", "q", "r", "s", "t", "u", "v", "w", "x", "y", "z">>

UpperLetters ==
    <<"A", "B", "C", "D", "E", "F", "G", "H", "I", "J", "K", "L", "M",
      "N", "O", "P", "Q", "R", "S", "T", "U", "V", "W", "X", "Y", "Z">>

\* string.punctuation; the double quote and the backtick are written as tokens.
Punctuation ==
    {"!", "DQUOTE", "#", "$", "%", "&", "'", "(", ")", "*", "+", ",", "-",
     ".", "/", ":", ";", "<", "=", ">", "?", "@", "[", "\\", "]", "^", "_",
     "BACKTICK", "{", "|", "}", "~"}

Range(f) == {f[i] : i \in DOMAIN f}

\* legal_characters = digits + ascii_letters + punctuation
legal_characters == Digits \cup Range(LowerLetters) \cup Range(UpperLetters) \cup Punctuation

\* The characters str.strip() removes at both ends.
Whitespace == {" ", "TAB", "LF", "CR"}

\* str.upper() on one character.
UpperChar(c) ==
    IF \E i \in DOMAIN LowerLetters : LowerLetters[i] = c
    THEN UpperLetters[CHOOSE i \in DOMAIN LowerLetters : LowerLetters[i] = c]
    ELSE c

upper(s) == [i \in DOMAIN s |-> UpperChar(s[i])]

RECURSIVE lstrip(_)
lstrip(s) ==
    IF s # <<>> /\ Head(s) \in Whitespace THEN lstrip(Tail(s)) ELSE s

RECURSIVE rstrip(_)
rstrip(s) ==
    IF s # <<>> /\ s[Len(s)] \in Whitespace
    THEN rstrip(SubSeq(s, 1, Len(s) - 1))
    ELSE s

\* str.strip() without arguments.
py_strip(s) == rstrip(lstrip(s))

IsLegal(c) == c \in legal_characters

\* common.py strip(): keep the legal characters, strip(), upper().
strip(string) == upper(py_strip(SelectSeq(string, IsLegal)))

\* Python's "sub in s" on strings: sub occurs as a contiguous substring.
Contains(sub, s) ==
    \E i \in 0..(Len(s) - Len(sub)) : SubSeq(s, i + 1, i + Len(sub)) = sub

\* Mutant: the operands of "in" exchanged (observed looked up in expected).
IdMatch_Reversed(expected, observed) == Contains(strip(observed), strip(expected))

\* Mutant: an expected id without legal characters matches nothing.
IdMatch_RejectsEmpty(expected, observed) ==
    strip(expected) # <<>> /\ Contains(strip(expected), strip(observed))

\* The identity test of poll(): strip(self.meter_id) in strip(sample.meter_id)
IdMatch(expected, observed) == Contains(strip(expected), strip(observed))

(***************************************************************************)
(* Values and the measurement model (common.py:11-40).                     *)
(* A value is None, a string, an integer (SML) or a float (text protocol:  *)
(* num is the integer part, str the fraction digits without trailing       *)
(* zeros).  Every value record has the same fields.                        *)
(***************************************************************************)
NoneV == [kind |-> "None", str |-> <<>>, num |-> 0]

StrV(s) == [kind |-> "str", str |-> s, num |-> 0]

NumV(n) == [kind |-> "int", str |-> <<>>, num |-> n]

FloatV(n, frac) == [kind |-> "float", str |-> frac, num |-> n]

\* Channel(channel_name, value, unit=None)
Channel(name, value, unit) == [channel_name |-> name, value |-> value, unit |-> unit]

\* The module's import time: the default of Sample.time is evaluated once,
\* when the class is defined (time: float = time()).
ImportTime == 0

\* "sample = None"
NoSample == [kind |-> "None", time |-> 0, meter_id |-> NoneV, channels |-> <<>>]

\* Sample(): time defaults to the import time, meter_id to None, channels to a
\* new empty list.
Sample == [kind |-> "Sample", time |-> ImportTime, meter_id |-> NoneV, channels |-> <<>>]

\* What a public call returns: None, a Sample or a Device.
RetNone ==
    [kind |-> "None", time |-> 0, meter_id |-> NoneV, channels |-> <<>>,
     tty |-> "", protocol |-> ""]

RetSample(s) ==
    [kind |-> "Sample", time |-> s.time, meter_id |-> s.meter_id,
     channels |-> s.channels, tty |-> "", protocol |-> ""]

\* Device(identifier, tty, protocol, channels); the identifier is kept in the
\* field meter_id of the result record.
Device(identifier, tty, protocol, channels) ==
    [kind |-> "Device", time |-> 0, meter_id |-> identifier,
     channels |-> channels, tty |-> tty, protocol |-> protocol]

(***************************************************************************)
(* Meter identifiers used as configuration and as identification values.   *)
(***************************************************************************)
ID_EMH00 == <<"E", "M", "H", "0", "0">>

ID_EMH99 == <<"E", "M", "H", "9", "9">>

\* 'emh 00': lower case with an interior space
ID_emh00 == <<"e", "m", "h", " ", "0", "0">>

\* '1 EMH00 4921570'
ID_FULL ==
    <<"1", " ", "E", "M", "H", "0", "0", " ", "4", "9", "2", "1", "5", "7", "0">>

\* '99999999' (the text protocol's test meter) and a part of it
ID_NINES == <<"9", "9", "9", "9", "9", "9", "9", "9">>

ID_99 == <<"9", "9">>

\* '12345678'
ID_OTHER == <<"1", "2", "3", "4", "5", "6", "7", "8">>

\* a configured id made of white space only
ID_BLANK == <<" ">>

(***************************************************************************)
(* SML: markers (meter_sml.py:21-22) and the bytes on the wire.            *)
(* A byte is a token: "ESC" is 0x1b, "01" is 0x01, "1a" is 0x1a; the       *)
(* tokens of a frame's body stand for the encoded SML messages and list    *)
(* entries.                                                                *)
(***************************************************************************)
START_SEQ == <<"ESC", "ESC", "ESC", "ESC", "01", "01", "01", "01">>

END_SEQ == <<"ESC", "ESC", "ESC", "ESC">>

\* The four bytes after the end marker: 0x1a, the number of fill bytes and
\* the checksum ("ck" "ck" is the matching checksum of the frame).
GoodTrailer == <<"1a", "00", "ck", "ck">>

BadCrcTrailer == <<"1a", "00", "xx", "xx">>

\* OBIS codes as the decoder renders them
OBIS_ID == <<"1", "-", "0", ":", "0", ".", "0", ".", "9">>

OBIS_ID_255 == OBIS_ID \o <<"*", "2", "5", "5">>

OBIS_180 == <<"1", "-", "0", ":", "1", ".", "8", ".", "0", "*", "2", "5", "5">>

OBIS_1670 == <<"1", "-", "0", ":", "1", "6", ".", "7", ".", "0", "*", "2", "5", "5">>

OBIS_MFR == <<"1", "2", "9", "-", "1", "2", "9", ":", "1", "9", "9", ".", "1", "3", "0", ".", "3", "*", "2", "5", "5">>

\* The identification values a body token can carry.
IdOfToken(t) ==
    CASE t = "id_full" -> ID_FULL
      [] t = "id_emh00" -> ID_EMH00
      [] t = "id_other" -> ID_OTHER
      [] OTHER -> <<>>

IdTokens == {"id_full", "id_emh00", "id_other"}

EntryTokens == IdTokens \cup {"e_180", "e_1670", "e_mfr"}

\* One decoded list entry (an SmlListEntry: objName, value, optional unit).
EntryOfToken(t) ==
    CASE t \in IdTokens ->
           [objName |-> OBIS_ID_255, value |-> StrV(IdOfToken(t)),
            hasUnit |-> FALSE, unit |-> <<>>]
      [] t = "e_180" ->
           [objName |-> OBIS_180, value |-> NumV(274002686),
            hasUnit |-> TRUE, unit |-> <<"W", "h">>]
      [] t = "e_1670" ->
           [objName |-> OBIS_1670, value |-> NumV(0 - 3078),
            hasUnit |-> TRUE, unit |-> <<"W">>]
      [] OTHER ->
           [objName |-> OBIS_MFR, value |-> StrV(<<"E", "M", "H">>),
            hasUnit |-> FALSE, unit |-> <<>>]

\* Body tokens: "M" opens a message with a messageBody, "X" a message
\* without one; an entry token adds an entry to the valList of the message
\* opened last.  Any other token is not decodable.
BodyTokens == {"M", "X"} \cup EntryTokens

RECURSIVE DecodeMessages(_, _)
DecodeMessages(body, msgs) ==
    IF body = <<>> THEN msgs
    ELSE LET t == Head(body) IN
         IF t = "M" THEN
             DecodeMessages(Tail(body), Append(msgs, [hasBody |-> TRUE, valList |-> <<>>]))
         ELSE IF t = "X" THEN
             DecodeMessages(Tail(body), Append(msgs, [hasBody |-> FALSE, valList |-> <<>>]))
         ELSE
             LET n == Len(msgs) IN
             DecodeMessages(Tail(body),
                 [msgs EXCEPT ![n].valList = Append(@, EntryOfToken(t))])

\* A body decodes when every token is known and it begins with a message.
Decodable(body) ==
    /\ \A i \in DOMAIN body : body[i] \in BodyTokens
    /\ body # <<>> => Head(body) \in {"M", "X"}

StartsWith(s, prefix) ==
    Len(s) >= Len(prefix) /\ SubSeq(s, 1, Len(prefix)) = prefix

EndsWith(s, suffix) ==
    Len(s) >= Len(suffix) /\ SubSeq(s, Len(s) - Len(suffix) + 1, Len(s)) = suffix

\* SmlBase.parse_frame of the sml library, on the reconstructed bytes:
\*   "frame": a list of two elements, the second the decoded SmlFrame;
\*   "short": a list of one element (no complete frame with a matching
\*            checksum in the buffer);
\*   "raise": the decoder signals a decode error (SmlParserError).
parse_frame(buf) ==
    IF /\ Len(buf) >= Len(START_SEQ) + Len(END_SEQ) + 4
       /\ StartsWith(buf, START_SEQ)
       /\ SubSeq(buf, Len(buf) - 7, Len(buf) - 4) = END_SEQ
       /\ buf[Len(buf) - 3] = "1a"
    THEN LET body == SubSeq(buf, Len(START_SEQ) + 1, Len(buf) - 8) IN
         IF SubSeq(buf, Len(buf) - 1, Len(buf)) # <<"ck", "ck">>
         THEN [kind |-> "short", frame |-> <<>>]
         ELSE IF Decodable(body)
         THEN [kind |-> "frame", frame |-> DecodeMessages(body, <<>>)]
         ELSE [kind |-> "raise", frame |-> <<>>]
    ELSE [kind |-> "short", frame |-> <<>>]

(***************************************************************************)
(* SmlReader.__parse (meter_sml.py:100-126).                                *)
(***************************************************************************)
RECURSIVE SmlParseEntries(_, _)

\* Mutant: a new channel is put in front of the channels found so far.
SmlParseEntries_Prepend(sample, sml_list) ==
    IF sml_list = <<>> THEN sample
    ELSE LET sml_entry == Head(sml_list)
             next ==
                 IF sml_entry.hasUnit
                 THEN [sample EXCEPT !.channels =
                          <<Channel(sml_entry.objName, sml_entry.value,
                                    StrV(sml_entry.unit))>> \o @]
                 ELSE IF Contains(OBIS_ID, sml_entry.objName)
                 THEN [sample EXCEPT !.meter_id = sml_entry.value]
                 ELSE [sample EXCEPT !.channels =
                          <<Channel(sml_entry.objName, sml_entry.value, NoneV)>> \o @]
         IN SmlParseEntries(next, Tail(sml_list))

SmlParseEntries(sample, sml_list) ==
    IF sml_list = <<>> THEN sample
    ELSE LET sml_entry == Head(sml_list)
             obis_code == sml_entry.objName
             value == sml_entry.value
             next ==
                 IF sml_entry.hasUnit
                 THEN [sample EXCEPT !.channels =
                          Append(@, Channel(obis_code, value, StrV(sml_entry.unit)))]
                 ELSE IF Contains(OBIS_ID, obis_code)
                 THEN [sample EXCEPT !.meter_id = value]
                 ELSE [sample EXCEPT !.channels =
                          Append(@, Channel(obis_code, value, NoneV))]
         IN SmlParseEntries(next, Tail(sml_list))

RECURSIVE SmlParseMessages(_, _)
SmlParseMessages(sample, sml_frame) ==
    IF sml_frame = <<>> THEN sample
    ELSE LET sml_mesage == Head(sml_frame)
             sml_list == IF sml_mesage.hasBody THEN sml_mesage.valList ELSE <<>>
             started == IF sample.kind = "None" THEN Sample ELSE sample
         IN IF sml_mesage.hasBody /\ Len(sml_list) > 0
            THEN SmlParseMessages(SmlParseEntries(started, sml_list), Tail(sml_frame))
            ELSE SmlParseMessages(sample, Tail(sml_frame))

SmlParse(sml_frame) == SmlParseMessages(NoSample, sml_frame)

(***************************************************************************)
(* The serial handle (pySerial), as the readers use it.                    *)
(* A read is given the bytes still to come on the line and the number of   *)
(* them that arrive before the call's timeout.                             *)
(***************************************************************************)
Min(a, b) == IF a < b THEN a ELSE b

\* The end position of the first occurrence of expected in s, 0 if none.
FirstEnd(s, expected) ==
    LET ends == {k \in Len(expected)..Len(s) :
                    SubSeq(s, k - Len(expected) + 1, k) = expected}
    IN IF ends = {} THEN 0 ELSE CHOOSE k \in ends : \A j \in ends : k <= j

\* Serial.read_until(expected): bytes up to and including the first
\* occurrence of expected, or what arrived when the timeout expired.
read_until(stream, expected, avail) ==
    LET k == FirstEnd(SubSeq(stream, 1, Min(avail, Len(stream))), expected)
        n == IF k > 0 THEN k ELSE Min(avail, Len(stream))
    IN [data |-> SubSeq(stream, 1, n), rest |-> SubSeq(stream, n + 1, Len(stream))]

\* Serial.read(size): size bytes, fewer when the timeout expired.
read(stream, size, avail) ==
    LET n == Min(size, Min(avail, Len(stream)))
    IN [data |-> SubSeq(stream, 1, n), rest |-> SubSeq(stream, n + 1, Len(stream))]

\* Serial.readline(): read_until(LF)
readline(stream, avail) == read_until(stream, <<"LF">>, avail)

\* One operation on the handle, as recorded in the call's log.
Ev(name, baud, bytes) == [ev |-> name, baud |-> baud, bytes |-> bytes]

\* self._tty_instance: none, or a handle that is open or closed and set to
\* a baud rate.
NoHandle == [exists |-> FALSE, is_open |-> FALSE, baudrate |-> 0]

\* The handle after the operations of a log.
RECURSIVE ApplyLog(_, _)
ApplyLog(h, log) ==
    IF log = <<>> THEN h
    ELSE LET e == Head(log)
             h2 == CASE e.ev = "open" -> [h EXCEPT !.is_open = TRUE]
                     [] e.ev = "close" -> [h EXCEPT !.is_open = FALSE]
                     [] e.ev = "baudrate" -> [h EXCEPT !.baudrate = e.baud]
                     [] OTHER -> h
         IN ApplyLog(h2, Tail(log))

\* Mutant: the slice keeps the bytes read after the end marker (s[8:]).
Slice8m4_KeepsTrailer(s) == SubSeq(s, 9, Len(s))

\* Python's s[8:-4]
Slice8m4(s) == SubSeq(s, 9, Len(s) - 4)

\* "with self._tty_instance as tty:": Serial.__enter__ opens the port unless
\* it is open, Serial.__exit__ closes it however the block is left.
WithEnter(h) == IF h.is_open THEN <<>> ELSE <<Ev("open", h.baudrate, <<>>)>>

\* Mutant: the port is opened and used without closing it.
WithExit_Leak(b) == <<>>

WithExit(b) == <<Ev("close", b, <<>>)>>

(***************************************************************************)
(* SmlReader.__fetch_sample (meter_sml.py:47-83).                          *)
(*   h          the handle after initialize_tty()                          *)
(*   line       what the serial line does during the call:                 *)
(*     fail        the step at which the port raises SerialException       *)
(*     in_waiting  the number of unread bytes queued when the call begins  *)
(*     wire        the bytes queued, followed by the bytes still to come   *)
(*     n1, n2, n3  the number of bytes that arrive before the timeout of   *)
(*                 the first, second and third read                        *)
(* The result names the Sample (or none), the exception the routine        *)
(* caught and logged, the exception that escapes it, and the operations    *)
(* on the handle.                                                          *)
(***************************************************************************)
FlushThreshold == 800

TrailerLen == 4

\* Mutant: reset_input_buffer() leaves the queued bytes in the buffer.
reset_input_buffer_KeepsBuffer(stream, in_waiting) == stream

\* Serial.reset_input_buffer(): the queued bytes are dropped.
reset_input_buffer(stream, in_waiting) ==
    SubSeq(stream, in_waiting + 1, Len(stream))

FetchResult(sample, caught, exc, log, payload, trailer) ==
    [sample |-> sample, caught |-> caught, exc |-> exc, log |-> log,
     payload |-> payload, trailer |-> trailer]

SmlFetchSample(h, line) ==
    LET b == h.baudrate
        \* with self._tty_instance as tty: open on entry, close on every exit
        enter == WithEnter(h)
        exit == WithExit(b)
        flush == IF line.in_waiting > FlushThreshold
                 THEN <<Ev("reset_input_buffer", b, <<>>)>>
                 ELSE <<>>
        stream == IF flush # <<>>
                  THEN reset_input_buffer(line.wire, line.in_waiting)
                  ELSE line.wire
        r1 == read_until(stream, START_SEQ, line.n1)
        r2 == read_until(r1.rest, END_SEQ, line.n2)
        r3 == read(r2.rest, TrailerLen, line.n3)
        e1 == <<Ev("read_until", b, r1.data)>>
        e2 == <<Ev("read_until", b, r2.data)>>
        e3 == <<Ev("read", b, r3.data)>>
        payload == r2.data
        trailer == r3.data
        sml_reconstructed == START_SEQ \o payload \o trailer
        done == enter \o flush \o e1 \o e2 \o e3 \o exit
        SerialError(log) ==
            FetchResult(NoSample, "SerialException", "none", log, <<>>, <<>>)
        Result(sample, caught, exc) ==
            FetchResult(sample, caught, exc, done, payload, trailer)
    IN
    IF line.fail = "open" /\ ~h.is_open THEN SerialError(<<>>)
    ELSE IF line.fail = "in_waiting" THEN SerialError(enter \o exit)
    ELSE IF line.fail = "reset_input_buffer" /\ flush # <<>>
         THEN SerialError(enter \o exit)
    ELSE IF line.fail = "read_start" THEN SerialError(enter \o flush \o exit)
    ELSE IF line.fail = "read_payload" THEN SerialError(enter \o flush \o e1 \o exit)
    ELSE IF line.fail = "read_trailer"
         THEN SerialError(enter \o flush \o e1 \o e2 \o exit)
    ELSE IF ~StartsWith(sml_reconstructed, START_SEQ)
         THEN Result(NoSample, "AssertionError", "none")
    ELSE IF ~EndsWith(Slice8m4(sml_reconstructed), END_SEQ)
         THEN Result(NoSample, "AssertionError", "none")
    ELSE LET frame == parse_frame(sml_reconstructed) IN
         IF frame.kind = "raise" THEN Result(NoSample, "none", "SmlParserError")
         ELSE IF frame.kind = "frame"
         THEN LET sample == SmlParse(frame.frame) IN
              IF sample.kind = "Sample"
              THEN Result(sample, "none", "none")
              ELSE Result(NoSample, "AssertionError", "none")
         ELSE Result(NoSample, "none", "none")

(***************************************************************************)
(* PlainReader.__parse (meter_plain.py:126-139):                           *)
(*   re.findall(r"([\d.]+)\(([\d.]+)\*?([\w\d.]+)?\)", response)           *)
(***************************************************************************)
DigitSeq == <<"0", "1", "2", "3", "4", "5", "6", "7", "8", "9">>

\* [\d.]
IsDigitDot(c) == c \in Digits \cup {"."}

\* [\w\d.]
IsWordDot(c) ==
    c \in Digits \cup Range(LowerLetters) \cup Range(UpperLetters) \cup {"_", "."}

\* The end of the longest run of [\d.] that starts at i (i - 1 when empty).
RECURSIVE DigitDotRunEnd(_, _)
DigitDotRunEnd(s, i) ==
    IF i <= Len(s) /\ IsDigitDot(s[i]) THEN DigitDotRunEnd(s, i + 1) ELSE i - 1

RECURSIVE WordDotRunEnd(_, _)
WordDotRunEnd(s, i) ==
    IF i <= Len(s) /\ IsWordDot(s[i]) THEN WordDotRunEnd(s, i + 1) ELSE i - 1

CharAt(s, i) == IF i >= 1 /\ i <= Len(s) THEN s[i] ELSE "EOS"

NoGroup == [ok |-> FALSE, ident |-> <<>>, value |-> <<>>, unit |-> <<>>, end |-> 0]

\* One match of the pattern that starts at position i.  The quantifiers are
\* greedy; no shorter choice can succeed where the longest one fails,
\* because the character that must follow each run is not in the run's class.
MatchAt(s, i) ==
    LET j1 == DigitDotRunEnd(s, i)
        j2 == DigitDotRunEnd(s, j1 + 2)
        k == IF CharAt(s, j2 + 1) = "*" THEN j2 + 2 ELSE j2 + 1
        j3 == WordDotRunEnd(s, k)
    IN IF /\ j1 >= i
          /\ CharAt(s, j1 + 1) = "("
          /\ j2 >= j1 + 2
          /\ CharAt(s, j3 + 1) = ")"
       THEN [ok |-> TRUE, ident |-> SubSeq(s, i, j1),
             value |-> SubSeq(s, j1 + 2, j2), unit |-> SubSeq(s, k, j3),
             end |-> j3 + 1]
       ELSE NoGroup

\* re.findall: the matches from left to right, not overlapping.
RECURSIVE FindAll(_, _)
FindAll(s, i) ==
    IF i > Len(s) THEN <<>>
    ELSE LET m == MatchAt(s, i) IN
         IF m.ok THEN <<m>> \o FindAll(s, m.end + 1) ELSE FindAll(s, i + 1)

DigitVal(c) == (CHOOSE n \in 1..10 : DigitSeq[n] = c) - 1

RECURSIVE DigitsToInt(_, _)
DigitsToInt(ds, acc) ==
    IF ds = <<>> THEN acc ELSE DigitsToInt(Tail(ds), acc * 10 + DigitVal(Head(ds)))

RECURSIVE DropTrailingZeros(_)
DropTrailingZeros(ds) ==
    IF ds # <<>> /\ ds[Len(ds)] = "0"
    THEN DropTrailingZeros(SubSeq(ds, 1, Len(ds) - 1))
    ELSE ds

IsDot(c) == c = "."

\* Mutant: the value is kept as the text that was sent, not cast to a number.
ParseFloat_KeepsText(value) == [ok |-> TRUE, value |-> StrV(value)]

\* float(value) for a value made of digits and dots: ValueError unless it
\* has at most one dot and at least one digit.
ParseFloat(value) ==
    LET dots == Len(SelectSeq(value, IsDot))
        p == FirstEnd(value, <<".">>)
        whole == IF p = 0 THEN value ELSE SubSeq(value, 1, p - 1)
        frac == IF p = 0 THEN <<>> ELSE SubSeq(value, p + 1, Len(value))
    IN IF dots > 1 \/ Len(value) = dots
       THEN [ok |-> FALSE, value |-> NoneV]
       ELSE [ok |-> TRUE, value |-> FloatV(DigitsToInt(whole, 0), DropTrailingZeros(frac))]

ID_REGISTER == <<"9", ".", "2", "1">>

\* The loop over the groups; exc is "ValueError" when float() raised.
RECURSIVE PlainParseGroups(_, _)
PlainParseGroups(parsed, groups) ==
    IF groups = <<>> THEN [sample |-> parsed, exc |-> "none"]
    ELSE LET g == Head(groups)
             started == IF parsed.kind = "None" THEN Sample ELSE parsed
             f == ParseFloat(g.value)
         IN IF g.unit = <<>> /\ g.ident = ID_REGISTER
            THEN PlainParseGroups([started EXCEPT !.meter_id = StrV(g.value)],
                                  Tail(groups))
            ELSE IF ~f.ok THEN [sample |-> NoSample, exc |-> "ValueError"]
            ELSE PlainParseGroups(
                     [started EXCEPT !.channels =
                         Append(@, Channel(g.ident, f.value, StrV(g.unit)))],
                     Tail(groups))

PlainParse(response) == PlainParseGroups(NoSample, FindAll(response, 1))

\* bytes.decode('utf-8'): "ff" is a byte that is not valid UTF-8; every
\* other byte token is an ASCII character.
Utf8Valid(bytes) == \A i \in DOMAIN bytes : bytes[i] # "ff"

(***************************************************************************)
(* PlainReader.__fetch_sample (meter_plain.py:56-93).                      *)
(*   h     the handle after initialize_tty()                               *)
(*   cfg   the reader's configuration (wakeup_zeros and the two rates)     *)
(*   line  fail, wire, n1, n2 as for SmlFetchSample; n1 bounds the read of *)
(*         the identification line, n2 the read of the response            *)
(***************************************************************************)
PLAIN_START_SEQ == <<"/", "?", "!", "CR", "LF">>

Zeros(n) == [i \in 1..n |-> "00"]

\* Mutant: the request is written but not flushed before the line is read.
PlainHandshake_NoFlush(cfg, init_bytes) ==
    <<Ev("baudrate", cfg.initial_baudrate, <<>>),
      Ev("write", cfg.initial_baudrate, Zeros(cfg.wakeup_zeros)),
      Ev("write", cfg.initial_baudrate, PLAIN_START_SEQ),
      Ev("readline", cfg.initial_baudrate, init_bytes)>>

\* Mutant: the handshake is written at whatever rate the handle was left at.
PlainHandshake_KeepsRate(cfg, init_bytes) ==
    <<Ev("write", cfg.initial_baudrate, Zeros(cfg.wakeup_zeros)),
      Ev("write", cfg.initial_baudrate, PLAIN_START_SEQ),
      Ev("flush", cfg.initial_baudrate, <<>>),
      Ev("readline", cfg.initial_baudrate, init_bytes)>>

\* The wakeup branch (meter_plain.py:65-75): set the initial rate, write the
\* wakeup zeros, write the request, flush, read the identification line.
PlainHandshake(cfg, init_bytes) ==
    <<Ev("baudrate", cfg.initial_baudrate, <<>>),
      Ev("write", cfg.initial_baudrate, Zeros(cfg.wakeup_zeros)),
      Ev("write", cfg.initial_baudrate, PLAIN_START_SEQ),
      Ev("flush", cfg.initial_baudrate, <<>>),
      Ev("readline", cfg.initial_baudrate, init_bytes)>>

PlainFetchSample(h, cfg, line) ==
    LET b0 == h.baudrate
        bi == cfg.initial_baudrate
        bw == cfg.baudrate
        wake == cfg.wakeup_zeros > 0
        enter == WithEnter(h)
        exit(b) == WithExit(b)
        \* the identification line is read only in the wakeup branch
        r1 == IF wake THEN readline(line.wire, line.n1)
              ELSE [data |-> <<>>, rest |-> line.wire]
        r2 == readline(r1.rest, line.n2)
        init_bytes == r1.data
        response_bytes == r2.data
        hs == PlainHandshake(cfg, init_bytes)
        s1 == enter \o SubSeq(hs, 1, 1)
        s2 == enter \o SubSeq(hs, 1, 2)
        s3 == enter \o SubSeq(hs, 1, 3)
        s4 == enter \o SubSeq(hs, 1, 4)
        s5 == enter \o hs
        pre == IF wake THEN s5 ELSE enter
        s6 == pre \o <<Ev("baudrate", bw, <<>>)>>
        s7 == s6 \o <<Ev("readline", bw, response_bytes)>>
        done == s7 \o exit(bw)
        SerialError(log) ==
            FetchResult(NoSample, "SerialException", "none", log, <<>>, <<>>)
        Result(sample, caught, exc) ==
            FetchResult(sample, caught, exc, done, init_bytes, response_bytes)
    IN
    IF line.fail = "open" /\ ~h.is_open THEN SerialError(<<>>)
    ELSE IF wake /\ line.fail = "baudrate_initial" THEN SerialError(enter \o exit(b0))
    ELSE IF wake /\ line.fail = "write_wakeup" THEN SerialError(s1 \o exit(bi))
    ELSE IF wake /\ line.fail = "write_request" THEN SerialError(s2 \o exit(bi))
    ELSE IF wake /\ line.fail = "flush" THEN SerialError(s3 \o exit(bi))
    ELSE IF wake /\ line.fail = "readline_init" THEN SerialError(s4 \o exit(bi))
    ELSE IF line.fail = "baudrate"
         THEN SerialError(pre \o exit(IF wake THEN bi ELSE b0))
    ELSE IF line.fail = "readline" THEN SerialError(s6 \o exit(bw))
    \* init_bytes.decode('utf-8'): init_bytes is bound only in the wakeup branch
    ELSE IF ~wake THEN Result(NoSample, "none", "UnboundLocalError")
    ELSE IF ~Utf8Valid(init_bytes) THEN Result(NoSample, "UnicodeError", "none")
    ELSE IF ~Utf8Valid(response_bytes) THEN Result(NoSample, "UnicodeError", "none")
    ELSE LET parsed == PlainParse(response_bytes) IN
         IF parsed.exc # "none" THEN Result(NoSample, "none", parsed.exc)
         ELSE IF parsed.sample.kind = "Sample"
         THEN Result(parsed.sample, "none", "none")
         ELSE Result(NoSample, "AssertionError", "none")

(***************************************************************************)
(* Configurations and serial lines the model explores.                     *)
(***************************************************************************)
\* SerialReader.__init__'s default rate, used by SmlReader
SML_BAUDRATE == 9600

\* PlainReader.__init__'s defaults
INITIAL_BAUDRATE == 300

PLAIN_BAUDRATE == 2400

\* The largest configured number of wakeup bytes
MaxWakeupZeros == 2

\* The largest number of bytes on the line ahead of a frame
MaxGarbage == 1

SmlConfiguredIds == {ID_EMH00, ID_emh00, ID_EMH99, ID_FULL, ID_BLANK}

PlainConfiguredIds == {ID_NINES, ID_99, ID_OTHER, ID_BLANK}

SmlConfigs ==
    {[protocol |-> "SML", meter_id |-> id, tty_url |-> "loop://",
      wakeup_zeros |-> 0, initial_baudrate |-> SML_BAUDRATE,
      baudrate |-> SML_BAUDRATE] : id \in SmlConfiguredIds}

PlainConfigs ==
    {[protocol |-> "PLAIN", meter_id |-> id, tty_url |-> "loop://",
      wakeup_zeros |-> w, initial_baudrate |-> INITIAL_BAUDRATE,
      baudrate |-> PLAIN_BAUDRATE] : id \in PlainConfiguredIds, w \in 0..MaxWakeupZeros}

\* start marker + body + end marker + trailer
Frame(body, trailer) == START_SEQ \o body \o END_SEQ \o trailer

Garbage(n) == [i \in 1..n |-> "g"]

\* The frame of the round trip: one identification entry, two value entries
Body0 == <<"M", "id_full", "e_180", "e_1670">>

SmlBodies ==
    {<<"M", id, "e_180", "e_1670">> : id \in IdTokens}
    \cup {<<"M", "id_full", "id_other", "e_180">>,           \* two identifications
          <<"M", "e_1670", "id_full", "M", "e_mfr", "e_180">>, \* two messages
          <<"X", "M", "e_mfr", "e_180">>,     \* values, no identification
          <<"M">>,                            \* an empty valList
          <<"X">>,                            \* no messageBody
          <<"zz">>}                           \* not decodable

\* A body whose last bytes are 0x1b, as the first bytes of the end marker are
EscBody == <<"M", "ESC", "ESC", "ESC">>

\* Wires explored with every timing of the three reads
SmlTimingWires ==
    {Garbage(n) \o Frame(Body0, GoodTrailer) : n \in {0, MaxGarbage}}
    \cup {<<>>,
          START_SEQ \o Body0,                     \* no end marker
          Body0 \o END_SEQ \o GoodTrailer,        \* no start marker
          Frame(EscBody, GoodTrailer)}

\* Wires explored delivered in full
SmlContentWires ==
    {Frame(body, GoodTrailer) : body \in SmlBodies}
    \cup {Frame(Body0, BadCrcTrailer)}

\* The number of bytes a read_until takes when nothing times out.
Reach(stream, expected) ==
    LET k == FirstEnd(stream, expected) IN IF k > 0 THEN k ELSE Len(stream)

Line(fail, in_waiting, wire, n1, n2, n3) ==
    [fail |-> fail, in_waiting |-> in_waiting, wire |-> wire,
     n1 |-> n1, n2 |-> n2, n3 |-> n3]

\* Every timing of the reads of one wire: each read gets what it waits for,
\* or times out with fewer bytes.
SmlTimings(wire) ==
    UNION {UNION {{Line("none", 0, wire, n1, n2, n3) :
                      n3 \in 0..Min(TrailerLen,
                                    Len(read_until(read_until(wire, START_SEQ, n1).rest,
                                                   END_SEQ, n2).rest))} :
                  n2 \in 0..Reach(read_until(wire, START_SEQ, n1).rest, END_SEQ)} :
           n1 \in 0..Reach(wire, START_SEQ)}

InTime(wire) ==
    LET n1 == Reach(wire, START_SEQ)
        rest == read_until(wire, START_SEQ, n1).rest
    IN Line("none", 0, wire, n1, Reach(rest, END_SEQ), TrailerLen)

SmlFailSteps ==
    {"open", "in_waiting", "reset_input_buffer", "read_start", "read_payload",
     "read_trailer"}

\* A backlog of q queued bytes: an older frame of another meter, then bytes
\* of no meaning.
OldFrame == Frame(<<"M", "id_other", "e_180">>, GoodTrailer)

Backlog(q) == IF q = 0 THEN <<>> ELSE OldFrame \o Garbage(q - Len(OldFrame))

\* A frame that arrives in time during a fetch that begins with q queued
\* bytes.
BacklogLine(q) ==
    LET wire == Backlog(q) \o Frame(Body0, GoodTrailer)
        t == InTime(IF q > FlushThreshold THEN reset_input_buffer(wire, q) ELSE wire)
    IN Line("none", q, wire, t.n1, t.n2, t.n3)

SmlLines ==
    UNION {SmlTimings(wire) : wire \in SmlTimingWires}
    \cup {InTime(wire) : wire \in SmlContentWires}
    \cup {BacklogLine(q) : q \in {FlushThreshold, FlushThreshold + 1}}
    \cup {[BacklogLine(q) EXCEPT !.fail = f] :
             f \in SmlFailSteps, q \in {0, FlushThreshold + 1}}

\* Text protocol: the identification line and the response
IdentLine == <<"/", "L", "G", "CR", "LF">>

G_ENERGY ==
    <<"6", ".", "8", "(", "0", "0", "0", "6", "0", "4", "7", "*", "k", "W", "h", ")">>

G_ID(id) == ID_REGISTER \o <<"(">> \o id \o <<")">>

CRLF == <<"CR", "LF">>

\* '\x026.8(0006047*kWh)9.21(99999999)\r\n'
Response0 == <<"STX">> \o G_ENERGY \o G_ID(ID_NINES) \o CRLF

G_POWER == <<"1", ".", "7", "(", "5", "*", "W", ")">>

\* a value with a fraction: 32.7(230.50*V)
G_VOLT == <<"3", "2", ".", "7", "(", "2", "3", "0", ".", "5", "0", "*", "V", ")">>

PlainResponses ==
    {<<"STX">> \o G_ENERGY \o G_ID(id) \o CRLF : id \in {ID_NINES, ID_OTHER}}
    \cup {<<"STX">> \o G_ENERGY \o G_ID(ID_NINES) \o G_ID(ID_OTHER) \o CRLF,
          <<"STX">> \o G_ENERGY \o G_POWER \o G_ID(ID_NINES) \o CRLF,
          <<"STX">> \o G_ID(ID_NINES) \o G_VOLT \o G_ENERGY \o CRLF}
    \cup {<<"STX">> \o G_ENERGY \o CRLF,                       \* no identification
          <<"STX">> \o G_ID(ID_NINES) \o CRLF,                 \* identification only
          <<"STX", "E", "R", "R">> \o CRLF,                    \* no group
          <<"STX", "ff">> \o G_ID(ID_NINES) \o CRLF,           \* not UTF-8
          <<"6", ".", "8", "(", "1", ".", "2", ".", "3", "*", "k", "W", "h", ")">>
              \o G_ID(ID_NINES) \o CRLF}                       \* not a number

PlainTimings(wire) ==
    UNION {{Line("none", 0, wire, n1, n2, 0) :
               n2 \in 0..Reach(readline(wire, n1).rest, <<"LF">>)} :
           n1 \in 0..Reach(wire, <<"LF">>)}

PlainInTime(wire) ==
    LET n1 == Reach(wire, <<"LF">>)
    IN Line("none", 0, wire, n1, Reach(readline(wire, n1).rest, <<"LF">>), 0)

PlainFailSteps ==
    {"open", "baudrate_initial", "write_wakeup", "write_request", "flush",
     "readline_init", "baudrate", "readline"}

PlainLines ==
    PlainTimings(IdentLine \o Response0)
    \cup {PlainInTime(IdentLine \o r) : r \in PlainResponses}
    \cup {PlainInTime(r) : r \in PlainResponses}
    \cup {PlainInTime(<<"ff", "LF">> \o Response0)}
    \cup {[PlainInTime(IdentLine \o Response0) EXCEPT !.fail = f] : f \in PlainFailSteps}

Lines(protocol) == IF protocol = "SML" THEN SmlLines ELSE PlainLines

\* Nothing arrives on the line.
QuietLine == Line("none", 0, <<>>, 0, 0, 0)

(***************************************************************************)
(* State.                                                                  *)
(*   cfg     the reader instance's configuration (set by __init__)         *)
(*   tty     self._tty_instance                                            *)
(*   line    what the serial line does during the next call                *)
(*   op      the public call that returned or raised last ("idle": none    *)
(*           since the line changed)                                       *)
(*   fetch   the result of the call's __fetch_sample                       *)
(*   ret     what the call returned                                        *)
(*   exc     the exception that escaped the call ("none": it returned)     *)
(*   warned  the call logged the identity-mismatch warning                 *)
(*   id_test one application of strip() and of the identity test to a pair *)
(*           of identifiers (used by IdSpec only)                          *)
(*   ports, detected   the candidate ports a detect() enumerates and what  *)
(*           the detect() did (used by DetectSpec only)                    *)
(*   chunks, single    the chunks in which a frame is delivered and the    *)
(*           outcome of the poll that got it in one piece (ChunkSpec only) *)
(*   now, polled       the clock and the polls made so far (TimeSpec only) *)
(*   post_timestamps, posted, got   a DebugGateway's dictionary, the post   *)
(*           calls made on it so far and the result of its last get         *)
(*           (GatewaySpec only)                                             *)
(***************************************************************************)
VARIABLES cfg, tty, line, op, fetch, ret, exc, warned, id_test,
          ports, detected, chunks, single, now, polled,
          post_timestamps, posted, got

detect_vars == <<ports, detected>>

chunk_vars == <<chunks, single>>

time_vars == <<now, polled>>

gateway_vars == <<post_timestamps, posted, got>>

vars == <<cfg, tty, line, op, fetch, ret, exc, warned, id_test,
          detect_vars, chunk_vars, time_vars, gateway_vars>>

\* What a detect() did: the list it returned and the number of candidates
\* it probed.
NoDetect == [devices |-> <<>>, probed |-> 0, kwargs |-> "none"]

\* The outcome of a call: what it returned or the exception that escaped.
NoOutcome == [done |-> FALSE, ret |-> RetNone, exc |-> "none"]

\* The variables of the other specifications, at rest.
DetectIdle == ports = <<>> /\ detected = NoDetect

ChunkIdle == chunks = <<>> /\ single = NoOutcome

TimeIdle == now = ImportTime /\ polled = <<>>

\* The channels a gateway is posted to and asked about
Uuids == {"uuid-a", "uuid-b"}

\* dict.get(uuid, (0, 0)): an entry is the pair (timestamp, value); set tells
\* whether the dictionary holds the key.
NoEntry == [set |-> FALSE, timestamp |-> 0, value |-> 0]

NoGot == [done |-> FALSE, uuid |-> "", timestamp |-> 0, value |-> 0, after |-> 0]

GatewayIdle ==
    /\ post_timestamps = [u \in Uuids |-> NoEntry]
    /\ posted = <<>>
    /\ got = NoGot

NoIdTest ==
    [expected |-> <<>>, observed |-> <<>>, done |-> FALSE,
     stripped_expected |-> <<>>, stripped_observed |-> <<>>, matched |-> FALSE]

NoFetch == FetchResult(NoSample, "none", "none", <<>>, <<>>, <<>>)

Init ==
    /\ cfg \in SmlConfigs \cup PlainConfigs
    /\ tty = NoHandle
    /\ line = QuietLine
    /\ op = "idle"
    /\ fetch = NoFetch
    /\ ret = RetNone
    /\ exc = "none"
    /\ warned = FALSE
    /\ id_test = NoIdTest
    /\ DetectIdle
    /\ ChunkIdle
    /\ TimeIdle
    /\ GatewayIdle

\* Mutant: initialize_tty() constructs a handle on every call.
initialize_tty_Always(h, baudrate) ==
    [exists |-> TRUE, is_open |-> FALSE, baudrate |-> baudrate]

\* SerialReader.initialize_tty (serial_reader.py:44-57), do_not_open=True:
\* a handle is constructed, closed, only when there is none.
initialize_tty(h, baudrate) ==
    IF ~h.exists
    THEN [exists |-> TRUE, is_open |-> FALSE, baudrate |-> baudrate]
    ELSE h

\* self.baudrate as SerialReader.__init__ stores it: PlainReader passes
\* baudrate=initial_baudrate.
ReaderBaudrate(c) == c.initial_baudrate

\* __fetch_sample of the reader's class, on a handle made by initialize_tty
FetchSample(c, h, l) ==
    IF c.protocol = "SML" THEN SmlFetchSample(h, l) ELSE PlainFetchSample(h, c, l)

\* Mutant: poll() returns whatever Sample the fetch produced.
PollResult_NoIdentityGate(meter_id, f) ==
    IF f.exc # "none" THEN [ret |-> RetNone, exc |-> f.exc, warned |-> FALSE]
    ELSE IF f.sample.kind = "None"
    THEN [ret |-> RetNone, exc |-> "none", warned |-> FALSE]
    ELSE [ret |-> RetSample(f.sample), exc |-> "none", warned |-> FALSE]

\* Mutant: poll() treats a mismatch as an error and raises.
PollResult_MismatchRaises(meter_id, f) ==
    IF f.exc # "none" THEN [ret |-> RetNone, exc |-> f.exc, warned |-> FALSE]
    ELSE IF f.sample.kind = "None"
    THEN [ret |-> RetNone, exc |-> "none", warned |-> FALSE]
    ELSE IF f.sample.meter_id.kind # "str"
    THEN [ret |-> RetNone, exc |-> "TypeError", warned |-> FALSE]
    ELSE IF IdMatch(meter_id, f.sample.meter_id.str)
    THEN [ret |-> RetSample(f.sample), exc |-> "none", warned |-> FALSE]
    ELSE [ret |-> RetNone, exc |-> "ValueError", warned |-> TRUE]

\* poll() after the fetch (meter_sml.py:39-45, meter_plain.py:48-54):
\* strip() of a meter_id that is None raises TypeError.
PollResult(meter_id, f) ==
    IF f.exc # "none" THEN [ret |-> RetNone, exc |-> f.exc, warned |-> FALSE]
    ELSE IF f.sample.kind = "None"
    THEN [ret |-> RetNone, exc |-> "none", warned |-> FALSE]
    ELSE IF f.sample.meter_id.kind # "str"
    THEN [ret |-> RetNone, exc |-> "TypeError", warned |-> FALSE]
    ELSE IF IdMatch(meter_id, f.sample.meter_id.str)
    THEN [ret |-> RetSample(f.sample), exc |-> "none", warned |-> FALSE]
    ELSE [ret |-> RetNone, exc |-> "none", warned |-> TRUE]

\* SmlReader._discover() after the fetch (meter_sml.py:95-98)
SmlDiscoverResult(c, f) ==
    IF f.exc # "none" THEN [ret |-> RetNone, exc |-> f.exc]
    ELSE IF f.sample.kind = "None" THEN [ret |-> RetNone, exc |-> "none"]
    ELSE [ret |-> Device(f.sample.meter_id, c.tty_url, "SML", f.sample.channels),
          exc |-> "none"]

\* The meter starts to send: what the next call will see is fixed.
LineOffers ==
    /\ line = QuietLine
    /\ op = "idle"
    /\ line' \in Lines(cfg.protocol)
    /\ UNCHANGED <<cfg, tty, op, fetch, ret, exc, warned, id_test,
                   detect_vars, chunk_vars, time_vars, gateway_vars>>

\* The caller has used the result of the last call and the line falls silent.
LineGoesQuiet ==
    /\ op # "idle"
    /\ line' = QuietLine
    /\ op' = "idle"
    /\ fetch' = NoFetch
    /\ ret' = RetNone
    /\ exc' = "none"
    /\ warned' = FALSE
    /\ UNCHANGED <<cfg, tty, id_test, detect_vars, chunk_vars, time_vars, gateway_vars>>

Poll ==
    LET h == initialize_tty(tty, ReaderBaudrate(cfg))
        f == FetchSample(cfg, h, line)
        r == PollResult(cfg.meter_id, f)
    IN /\ op' = "poll"
       /\ fetch' = f
       /\ tty' = ApplyLog(h, f.log)
       /\ ret' = r.ret
       /\ exc' = r.exc
       /\ warned' = r.warned
       /\ UNCHANGED <<cfg, line, id_test, detect_vars, chunk_vars, time_vars, gateway_vars>>

\* SmlReader.poll (meter_sml.py:34-45)
SmlPoll == cfg.protocol = "SML" /\ Poll

\* PlainReader.poll (meter_plain.py:43-54)
PlainPoll == cfg.protocol = "PLAIN" /\ Poll

\* SmlReader._discover (meter_sml.py:91-98)
SmlDiscover ==
    LET h == initialize_tty(tty, ReaderBaudrate(cfg))
        f == SmlFetchSample(h, line)
        r == SmlDiscoverResult(cfg, f)
    IN /\ cfg.protocol = "SML"
       /\ op' = "_discover"
       /\ fetch' = f
       /\ tty' = ApplyLog(h, f.log)
       /\ ret' = r.ret
       /\ exc' = r.exc
       /\ warned' = FALSE
       /\ UNCHANGED <<cfg, line, id_test, detect_vars, chunk_vars, time_vars, gateway_vars>>

\* PlainReader._discover (meter_plain.py:123-124): pass
PlainDiscover ==
    /\ cfg.protocol = "PLAIN"
    /\ op' = "_discover"
    /\ fetch' = NoFetch
    /\ ret' = RetNone
    /\ exc' = "none"
    /\ warned' = FALSE
    /\ UNCHANGED <<cfg, tty, line, id_test, detect_vars, chunk_vars, time_vars, gateway_vars>>

\* SerialReader.initialize_tty() called by the user of the reader.  The call
\* does not touch the line, so it is explored while the line is quiet.
InitializeTty ==
    /\ line = QuietLine
    /\ op' = "initialize_tty"
    /\ tty' = initialize_tty(tty, ReaderBaudrate(cfg))
    /\ fetch' = NoFetch
    /\ ret' = RetNone
    /\ exc' = "none"
    /\ warned' = FALSE
    /\ UNCHANGED <<cfg, line, id_test, detect_vars, chunk_vars, time_vars, gateway_vars>>

\* Mutant: close_tty() closes the port and keeps the handle.
close_tty_KeepsHandle(h) == [h EXCEPT !.is_open = FALSE]

\* self._tty_instance after close_tty (serial_reader.py:64)
close_tty(h) == NoHandle

\* SerialReader.close_tty (serial_reader.py:59-64): close() on the handle,
\* then the reader forgets it; without a handle the call raises.
CloseTty ==
    /\ line = QuietLine
    /\ op' = "close_tty"
    /\ tty' = close_tty(tty)
    /\ exc' = IF tty.exists THEN "none" ELSE "AttributeError"
    /\ fetch' = [NoFetch EXCEPT !.log = IF tty.exists
                                        THEN <<Ev("close", tty.baudrate, <<>>)>>
                                        ELSE <<>>]
    /\ ret' = RetNone
    /\ warned' = FALSE
    /\ UNCHANGED <<cfg, line, id_test, detect_vars, chunk_vars, time_vars, gateway_vars>>

Next ==
    \/ LineOffers
    \/ LineGoesQuiet
    \/ SmlPoll
    \/ PlainPoll
    \/ SmlDiscover
    \/ PlainDiscover
    \/ InitializeTty
    \/ CloseTty

Spec == Init /\ [][Next]_vars

(***************************************************************************)
(* IdSpec: strip() and the identity test of poll() applied to pairs of     *)
(* identifiers, with white space, mixed case, punctuation and characters   *)
(* outside ASCII ("a-umlaut", "eszett").                                   *)
(***************************************************************************)
\* '1 EMH 00 4921570' and '1EMH004921570' (test_meter_sml.py:58 and :80)
ID_TEST_METER ==
    <<"1", " ", "E", "M", "H", " ", "0", "0", " ", "4", "9", "2", "1", "5", "7", "0">>

ID_TEST_CONFIG == <<"1", "E", "M", "H", "0", "0", "4", "9", "2", "1", "5", "7", "0">>

IdTestInputs ==
    {ID_EMH00, ID_EMH99, ID_emh00, ID_FULL, ID_NINES, ID_99, ID_BLANK, <<>>,
     ID_TEST_METER, ID_TEST_CONFIG,
     <<"TAB", "e", "a-umlaut", "-", "M", " ", "h", "LF">>,
     <<"eszett", "0", "_", "0", "CR">>,
     <<"a-umlaut", " ", "eszett">>}

IdInit ==
    /\ cfg \in SmlConfigs
    /\ cfg.meter_id = ID_FULL
    /\ tty = NoHandle
    /\ line = QuietLine
    /\ op = "idle"
    /\ fetch = NoFetch
    /\ ret = RetNone
    /\ exc = "none"
    /\ warned = FALSE
    /\ id_test \in {[NoIdTest EXCEPT !.expected = e, !.observed = o] :
                       e \in IdTestInputs, o \in IdTestInputs}
    /\ DetectIdle
    /\ ChunkIdle
    /\ TimeIdle
    /\ GatewayIdle

\* strip(self.meter_id) in strip(sample.meter_id)
IdentityTest ==
    /\ ~id_test.done
    /\ id_test' = [id_test EXCEPT
                      !.done = TRUE,
                      !.stripped_expected = strip(id_test.expected),
                      !.stripped_observed = strip(id_test.observed),
                      !.matched = IdMatch(id_test.expected, id_test.observed)]
    /\ UNCHANGED <<cfg, tty, line, op, fetch, ret, exc, warned,
                 detect_vars, chunk_vars, time_vars, gateway_vars>>

\* The same reader is asked about the identifiers the other way round.
IdentitySwap ==
    /\ id_test.done
    /\ id_test' = [NoIdTest EXCEPT !.expected = id_test.observed,
                                   !.observed = id_test.expected]
    /\ UNCHANGED <<cfg, tty, line, op, fetch, ret, exc, warned,
                 detect_vars, chunk_vars, time_vars, gateway_vars>>

IdNext == IdentityTest \/ IdentitySwap

IdSpec == IdInit /\ [][IdNext]_vars

(***************************************************************************)
(* DetectSpec: discovery.  SmlReader.detect() runs                         *)
(* SerialReader._detect_serial_devices over the ports that                 *)
(* serial.tools.list_ports.grep() enumerates; PlainReader.detect() has a   *)
(* loop of its own over the matching entries of /dev.                      *)
(***************************************************************************)
\* The largest number of candidate ports
MaxPorts == 3

PortUrls == {"/dev/ttyUSB0", "/dev/ttyUSB1", "/dev/ttyUSB2", "/dev/ttyS0"}

\* "irrelevant", the expected id of the readers made for probing
ID_IRRELEVANT == <<"i", "r", "r", "e", "l", "e", "v", "a", "n", "t">>

\* What the line of a candidate port does when the port is probed
SmlPortLines ==
    {InTime(Frame(Body0, GoodTrailer)),                          \* a meter
     InTime(Frame(<<"M", "id_other", "e_180">>, GoodTrailer)),   \* another meter
     InTime(Frame(<<"X", "M", "e_mfr", "e_180">>, GoodTrailer)), \* no identification
     InTime(Frame(<<"zz">>, GoodTrailer)),                       \* not decodable
     [InTime(Frame(Body0, GoodTrailer)) EXCEPT !.fail = "open"], \* port cannot be opened
     QuietLine}                                                  \* nothing connected

PlainPortLines == {PlainInTime(IdentLine \o Response0), QuietLine}

PortLines(protocol) == IF protocol = "SML" THEN SmlPortLines ELSE PlainPortLines

\* One enumerated port: its address, what its line does when probed, and
\* whether reading the address (possible_port_info.device) raises.
PortInfos(protocol) ==
    [device : PortUrls, line : PortLines(protocol), fault : {"none"}]
    \cup (IF protocol = "SML"
          THEN [device : PortUrls, line : {QuietLine}, fault : {"device"}]
          ELSE {})

\* The enumerations: up to MaxPorts distinct ports in any order
Enumerations(protocol) ==
    UNION {{e \in [1..n -> PortInfos(protocol)] :
               \A i, j \in 1..n : i # j => e[i].device # e[j].device} :
           n \in 0..MaxPorts}

\* The keyword arguments of detect(), which _detect_serial_devices hands to
\* the constructor of every probing reader: none, or arguments the
\* constructor raises TypeError on (parity=None; a second value for tty).
DetectKwargs == {"default", "unacceptable"}

\* The readers detect() is called on: SmlReader("irrelevant", "loop://")
\* (meter_sml.py:89); PlainReader.detect is static and makes no reader.
DetectConfigs ==
    {c \in SmlConfigs \cup PlainConfigs :
        c.meter_id = ID_BLANK /\ c.wakeup_zeros \in {0, MaxWakeupZeros}}

DetectInit ==
    /\ cfg \in DetectConfigs
    /\ tty = NoHandle
    /\ line = QuietLine
    /\ op = "idle"
    /\ fetch = NoFetch
    /\ ret = RetNone
    /\ exc = "none"
    /\ warned = FALSE
    /\ id_test = NoIdTest
    /\ ports \in Enumerations(cfg.protocol)
    /\ detected = NoDetect
    /\ ChunkIdle
    /\ TimeIdle
    /\ GatewayIdle

\* self.__class__("irrelevant", discovered_tty_url, **kwargs) and its
\* _discover() (serial_reader.py:76-81)
Probe(c, port) ==
    LET reader == [c EXCEPT !.meter_id = ID_IRRELEVANT, !.tty_url = port.device]
        h == initialize_tty(NoHandle, ReaderBaudrate(reader))
    IN SmlDiscoverResult(reader, SmlFetchSample(h, port.line))

DetectResult(devices, e, probed) ==
    [devices |-> devices, exc |-> e, probed |-> probed]

\* The fault of an iteration before its reader exists (serial_reader.py:76-79):
\* reading the address, then constructing the reader with the kwargs.
PreInstanceFault(kwargs, port) ==
    IF port.fault = "device" THEN "AttributeError"
    ELSE IF kwargs = "unacceptable" THEN "TypeError"
    ELSE "none"

\* "except Exception as err: error(f'... {serial_reader_implementation.PROTOCOL}
\* ...'); raise err" (serial_reader.py:86-89).  The message is built first:
\* when the name serial_reader_implementation is not bound, building it
\* raises UnboundLocalError and "raise err" is not reached.
ExceptClause(err, bound) == IF bound THEN err ELSE "UnboundLocalError"

RECURSIVE DetectSerialDevices(_, _, _, _, _)

\* Mutant: a newly found Device is put in front of the list.
DetectSerialDevices_Prepend(c, kwargs, candidates, devices, probed) ==
    IF candidates = <<>> THEN DetectResult(devices, "none", probed)
    ELSE LET early == PreInstanceFault(kwargs, Head(candidates))
             r == Probe(c, Head(candidates))
         IN
         IF early # "none"
         THEN DetectResult(<<>>, ExceptClause(early, probed > 0), probed + 1)
         ELSE IF r.exc # "none"
         THEN DetectResult(<<>>, ExceptClause(r.exc, TRUE), probed + 1)
         ELSE IF r.ret.kind = "Device"
         THEN DetectSerialDevices(c, kwargs, Tail(candidates), <<r.ret>> \o devices, probed + 1)
         ELSE DetectSerialDevices(c, kwargs, Tail(candidates), devices, probed + 1)

\* Mutant: an exception at one candidate is logged and the loop goes on.
DetectSerialDevices_Swallow(c, kwargs, candidates, devices, probed) ==
    IF candidates = <<>> THEN DetectResult(devices, "none", probed)
    ELSE LET early == PreInstanceFault(kwargs, Head(candidates))
             r == Probe(c, Head(candidates))
         IN
         IF early = "none" /\ r.exc = "none" /\ r.ret.kind = "Device"
         THEN DetectSerialDevices(c, kwargs, Tail(candidates), Append(devices, r.ret), probed + 1)
         ELSE DetectSerialDevices(c, kwargs, Tail(candidates), devices, probed + 1)

\* SerialReader._detect_serial_devices (serial_reader.py:66-90): the loop
\* over the candidates not yet probed.  An exception ends it: no list is
\* returned.  (A Device is an object without __bool__ or __len__: truthy.)
\* The name serial_reader_implementation is bound from the first iteration
\* that constructed a reader on; every iteration before the current one
\* did, since an exception ends the loop.
DetectSerialDevices(c, kwargs, candidates, devices, probed) ==
    IF candidates = <<>> THEN DetectResult(devices, "none", probed)
    ELSE LET early == PreInstanceFault(kwargs, Head(candidates))
             r == Probe(c, Head(candidates))
         IN
         IF early # "none"
         THEN DetectResult(<<>>, ExceptClause(early, probed > 0), probed + 1)
         ELSE IF r.exc # "none"
         THEN DetectResult(<<>>, ExceptClause(r.exc, TRUE), probed + 1)
         ELSE IF r.ret.kind = "Device"
         THEN DetectSerialDevices(c, kwargs, Tail(candidates), Append(devices, r.ret), probed + 1)
         ELSE DetectSerialDevices(c, kwargs, Tail(candidates), devices, probed + 1)

\* SmlReader.detect (meter_sml.py:85-89)
SmlDetect ==
    \E kwargs \in DetectKwargs :
       LET d == DetectSerialDevices(cfg, kwargs, ports, <<>>, 0)
       IN /\ cfg.protocol = "SML"
          /\ op = "idle"
          /\ op' = "detect"
          /\ detected' = [devices |-> d.devices, probed |-> d.probed,
                          kwargs |-> kwargs]
          /\ exc' = d.exc
          /\ UNCHANGED <<cfg, tty, line, fetch, ret, warned, id_test, ports,
                         chunk_vars, time_vars, gateway_vars>>

\* PlainReader.detect (meter_plain.py:96-121): for the first candidate the
\* loop calls PlainReader.__get_response, which the class does not have.
PlainDetect ==
    /\ cfg.protocol = "PLAIN"
    /\ op = "idle"
    /\ op' = "detect"
    /\ detected' = NoDetect
    /\ exc' = IF ports = <<>> THEN "none" ELSE "AttributeError"
    /\ UNCHANGED <<cfg, tty, line, fetch, ret, warned, id_test, ports,
                   chunk_vars, time_vars, gateway_vars>>

DetectNext == SmlDetect \/ PlainDetect

DetectSpec == DetectInit /\ [][DetectNext]_vars

(***************************************************************************)
(* ChunkSpec: one frame reaches the port in chunks.  A chunk is what one   *)
(* transfer puts into the input buffer; the next chunk arrives before the  *)
(* timeout of the read that waits for it.  Serial.read_until and           *)
(* Serial.read take the bytes one at a time and wait when the buffer is    *)
(* empty.                                                                  *)
(***************************************************************************)
\* The largest number of places at which a frame is cut
MaxCuts == 2

\* The ways of cutting: up to MaxCuts increasing positions inside the bytes
Cuts(bytes) ==
    UNION {{c \in [1..k -> 1..(Len(bytes) - 1)] :
               \A i \in 1..(k - 1) : c[i] < c[i + 1]} :
           k \in 0..MaxCuts}

Chunked(bytes, cuts) ==
    [i \in 1..(Len(cuts) + 1) |->
        SubSeq(bytes,
               IF i = 1 THEN 1 ELSE cuts[i - 1] + 1,
               IF i = Len(cuts) + 1 THEN Len(bytes) ELSE cuts[i])]

RECURSIVE Flatten(_)
Flatten(pending) ==
    IF pending = <<>> THEN <<>> ELSE Head(pending) \o Flatten(Tail(pending))

RECURSIVE ReadUntilChunked(_, _, _)

\* Mutant: a read returns when the input buffer runs empty, without waiting
\* for the next chunk.
ReadUntilChunked_NoWait(pending, expected, acc) ==
    IF EndsWith(acc, expected) THEN [data |-> acc, rest |-> pending]
    ELSE IF pending = <<>> THEN [data |-> acc, rest |-> <<>>]
    ELSE IF Head(pending) = <<>> THEN [data |-> acc, rest |-> Tail(pending)]
    ELSE ReadUntilChunked(<<Tail(Head(pending))>> \o Tail(pending), expected,
                          Append(acc, Head(Head(pending))))

\* tty.read_until(expected) (meter_sml.py:61-63) on chunks still to come:
\* byte by byte until the bytes taken end with expected; when the buffer is
\* empty the read waits for the next chunk, and times out when none comes.
ReadUntilChunked(pending, expected, acc) ==
    IF EndsWith(acc, expected) THEN [data |-> acc, rest |-> pending]
    ELSE IF pending = <<>> THEN [data |-> acc, rest |-> <<>>]
    ELSE IF Head(pending) = <<>>
    THEN ReadUntilChunked(Tail(pending), expected, acc)
    ELSE ReadUntilChunked(<<Tail(Head(pending))>> \o Tail(pending), expected,
                          Append(acc, Head(Head(pending))))

\* tty.read(size) (meter_sml.py:65) on chunks still to come
RECURSIVE ReadChunked(_, _, _)
ReadChunked(pending, size, acc) ==
    IF Len(acc) = size THEN [data |-> acc, rest |-> pending]
    ELSE IF pending = <<>> THEN [data |-> acc, rest |-> <<>>]
    ELSE IF Head(pending) = <<>> THEN ReadChunked(Tail(pending), size, acc)
    ELSE ReadChunked(<<Tail(Head(pending))>> \o Tail(pending), size,
                     Append(acc, Head(Head(pending))))

\* What the three reads of a fetch get when the line delivers the chunks
ChunkedLine(pending) ==
    LET r1 == ReadUntilChunked(pending, START_SEQ, <<>>)
        r2 == ReadUntilChunked(r1.rest, END_SEQ, <<>>)
        r3 == ReadChunked(r2.rest, TrailerLen, <<>>)
    IN Line("none", 0, Flatten(pending), Len(r1.data), Len(r2.data), Len(r3.data))

\* The valid frames delivered
ChunkFrames ==
    {Frame(body, GoodTrailer) :
        body \in {<<"M", id, "e_180", "e_1670">> : id \in IdTokens}}

ChunkInit ==
    /\ cfg \in SmlConfigs
    /\ tty = NoHandle
    /\ line = QuietLine
    /\ op = "idle"
    /\ fetch = NoFetch
    /\ ret = RetNone
    /\ exc = "none"
    /\ warned = FALSE
    /\ id_test = NoIdTest
    /\ DetectIdle
    /\ chunks \in UNION {{Chunked(f, c) : c \in Cuts(f)} : f \in ChunkFrames}
    /\ single = NoOutcome
    /\ TimeIdle
    /\ GatewayIdle

\* SmlReader.poll() while the frame arrives in the chunks
ChunkedPoll ==
    /\ op = "idle"
    /\ line' = ChunkedLine(chunks)
    /\ LET h == initialize_tty(tty, ReaderBaudrate(cfg))
           f == SmlFetchSample(h, line')
           r == PollResult(cfg.meter_id, f)
       IN /\ op' = "poll"
          /\ fetch' = f
          /\ tty' = ApplyLog(h, f.log)
          /\ ret' = r.ret
          /\ exc' = r.exc
          /\ warned' = r.warned
    /\ UNCHANGED <<cfg, id_test, detect_vars, chunk_vars, time_vars, gateway_vars>>

\* SmlReader.poll() of a reader with the same configuration while the same
\* bytes arrive in one piece
SingleShotPoll ==
    /\ ~single.done
    /\ LET h == initialize_tty(NoHandle, ReaderBaudrate(cfg))
           f == SmlFetchSample(h, ChunkedLine(<<Flatten(chunks)>>))
           r == PollResult(cfg.meter_id, f)
       IN single' = [done |-> TRUE, ret |-> r.ret, exc |-> r.exc]
    /\ UNCHANGED <<cfg, tty, line, op, fetch, ret, exc, warned, id_test,
                   detect_vars, chunks, time_vars, gateway_vars>>

ChunkNext == ChunkedPoll \/ SingleShotPoll

ChunkSpec == ChunkInit /\ [][ChunkNext]_vars

(***************************************************************************)
(* TimeSpec: polls made while the clock advances.  The module common.py is *)
(* imported at ImportTime; "time: float = time()" in the dataclass Sample  *)
(* is evaluated then, once, and is the default of every Sample().          *)
(***************************************************************************)
\* The latest time on the clock
MaxClock == 3

\* The largest number of polls recorded
MaxPolls == 3

\* Readers whose meter answers every poll in time
TimeConfigs ==
    SmlConfigs \cup {c \in PlainConfigs : c.wakeup_zeros > 0}

TimeInit ==
    /\ cfg \in TimeConfigs
    /\ tty = NoHandle
    /\ line = IF cfg.protocol = "SML"
              THEN InTime(Frame(Body0, GoodTrailer))
              ELSE PlainInTime(IdentLine \o Response0)
    /\ op = "idle"
    /\ fetch = NoFetch
    /\ ret = RetNone
    /\ exc = "none"
    /\ warned = FALSE
    /\ id_test = NoIdTest
    /\ DetectIdle
    /\ ChunkIdle
    /\ now = ImportTime
    /\ polled = <<>>
    /\ GatewayIdle

\* Time passes.
Tick ==
    /\ now < MaxClock
    /\ now' = now + 1
    /\ UNCHANGED <<cfg, tty, line, op, fetch, ret, exc, warned, id_test,
                   detect_vars, chunk_vars, polled, gateway_vars>>

\* poll() of either reader, called at the time now
TimedPoll ==
    /\ Len(polled) < MaxPolls
    /\ LET h == initialize_tty(tty, ReaderBaudrate(cfg))
           f == FetchSample(cfg, h, line)
           r == PollResult(cfg.meter_id, f)
       IN /\ op' = "poll"
          /\ fetch' = f
          /\ tty' = ApplyLog(h, f.log)
          /\ ret' = r.ret
          /\ exc' = r.exc
          /\ warned' = r.warned
          /\ polled' = Append(polled, [at |-> now, ret |-> r.ret])
    /\ UNCHANGED <<cfg, line, id_test, detect_vars, chunk_vars, now, gateway_vars>>

TimeNext == Tick \/ TimedPoll

TimeSpec == TimeInit /\ [][TimeNext]_vars

(***************************************************************************)
(* GatewaySpec: DebugGateway (gateway/debug.py), the gateway that keeps     *)
(* what is posted in a dictionary instead of uploading it.                 *)
(***************************************************************************)
\* The largest number of post calls
MaxPosts == 3

\* A timestamp argument: an int (milliseconds), or a float (seconds) given
\* in sixteenths of a second, which a float holds exactly.
IntStamp(ms) == [kind |-> "int", num |-> ms]

FloatStamp(sixteenths) == [kind |-> "float", num |-> sixteenths]

\* 1000 and 2000 ms; 1.0625 s and 1.5625 s
Timestamps == {IntStamp(1000), IntStamp(2000), FloatStamp(17), FloatStamp(25)}

PostedValues == {0, 5}

\* BaseGateway.timestamp_to_int (gateway/gateway.py:28-32):
\* int(timestamp * 1000) for a float, the argument itself otherwise.
timestamp_to_int(timestamp) ==
    IF timestamp.kind = "float" THEN (timestamp.num * 1000) \div 16 ELSE timestamp.num

GatewayInit ==
    /\ cfg \in SmlConfigs
    /\ cfg.meter_id = ID_FULL
    /\ tty = NoHandle
    /\ line = QuietLine
    /\ op = "idle"
    /\ fetch = NoFetch
    /\ ret = RetNone
    /\ exc = "none"
    /\ warned = FALSE
    /\ id_test = NoIdTest
    /\ DetectIdle
    /\ ChunkIdle
    /\ TimeIdle
    /\ GatewayIdle

\* DebugGateway.post (gateway/debug.py:18-22)
Post ==
    \E uuid \in Uuids, value \in PostedValues, timestamp \in Timestamps :
       /\ Len(posted) < MaxPosts
       /\ post_timestamps' =
             [post_timestamps EXCEPT ![uuid] =
                 [set |-> TRUE, timestamp |-> timestamp_to_int(timestamp),
                  value |-> value]]
       /\ posted' = Append(posted, [uuid |-> uuid, value |-> value,
                                    timestamp |-> timestamp])
       /\ UNCHANGED <<cfg, tty, line, op, fetch, ret, exc, warned, id_test,
                      detect_vars, chunk_vars, time_vars, got>>

\* DebugGateway.get (gateway/debug.py:24-27): "return timestamp, 0"
Get ==
    \E uuid \in Uuids :
       LET entry == IF post_timestamps[uuid].set THEN post_timestamps[uuid]
                    ELSE NoEntry
       IN /\ got' = [done |-> TRUE, uuid |-> uuid, timestamp |-> entry.timestamp,
                     value |-> 0, after |-> Len(posted)]
          /\ UNCHANGED <<cfg, tty, line, op, fetch, ret, exc, warned, id_test,
                         detect_vars, chunk_vars, time_vars, post_timestamps,
                         posted>>

GatewayNext == Post \/ Get

GatewaySpec == GatewayInit /\ [][GatewayNext]_vars

(***************************************************************************)
(* Properties.                                                             *)
(***************************************************************************)
\* Canonicalization as the specification words it: drop every character
\* that is not a digit, an ASCII letter or punctuation, uppercase the rest.
Canon(s) == upper(SelectSeq(s, IsLegal))

IsPoll == op = "poll"

\* The call's fetch produced a Sample whose meter_id is a string.
FetchedId == fetch.sample.kind = "Sample" /\ fetch.sample.meter_id.kind = "str"

\* C1: a Sample returned by poll(), of either reader, has a meter_id that is
\* not None, and the canonical configured id is a contiguous substring of
\* the canonical Sample.meter_id.
C1_PollReturnsIdentifiedSample ==
    (IsPoll /\ ret.kind = "Sample") =>
        /\ ret.meter_id.kind = "str"
        /\ Contains(Canon(cfg.meter_id), Canon(ret.meter_id.str))

\* C1 witness: an SML poll returned a Sample whose id differs from the
\* configured one in case and spacing and carries more around it.
C1_Witness ==
    /\ IsPoll
    /\ cfg.protocol = "SML"
    /\ cfg.meter_id = ID_emh00
    /\ ret.kind = "Sample"
    /\ ret.meter_id = StrV(ID_FULL)

\* C2: when the data fetched are structurally valid and carry an
\* identification that does not match the configured id, poll() returns
\* None, raises nothing and logs the mismatch warning.
C2_MismatchReturnsNothing ==
    (/\ IsPoll
     /\ fetch.exc = "none"
     /\ FetchedId
     /\ ~Contains(Canon(cfg.meter_id), Canon(fetch.sample.meter_id.str)))
    => (ret.kind = "None" /\ exc = "none" /\ warned)

\* C2 witness: a text response with all its groups, identifying another
\* meter than the configured one, was polled.
C2_Witness ==
    /\ IsPoll
    /\ cfg.protocol = "PLAIN"
    /\ cfg.meter_id = ID_OTHER
    /\ FetchedId
    /\ fetch.sample.meter_id = StrV(ID_NINES)
    /\ Len(fetch.sample.channels) = 1
    /\ ret.kind = "None"
    /\ warned

\* C3: the identity test is "Canon(expected) is a contiguous substring of
\* Canon(observed)", strip() computes Canon, every identifier matches
\* itself, 'EMH00' matches '1 EMH00 4921570', 'EMH99' does not, and the
\* test is directional: 'EMH00' is found in '1 EMH00 4921570' but
\* '1 EMH00 4921570' is not found in 'EMH00'.
C3_IdentityMatching ==
    id_test.done =>
        /\ id_test.stripped_expected = Canon(id_test.expected)
        /\ id_test.stripped_observed = Canon(id_test.observed)
        /\ \A i \in DOMAIN id_test.stripped_observed :
              /\ id_test.stripped_observed[i] \in legal_characters
              /\ id_test.stripped_observed[i] \notin Range(LowerLetters)
        /\ id_test.matched <=>
              Contains(Canon(id_test.expected), Canon(id_test.observed))
        /\ id_test.expected = id_test.observed => id_test.matched
        /\ (id_test.expected = ID_EMH00 /\ id_test.observed = ID_FULL)
              => id_test.matched
        /\ (id_test.expected = ID_EMH99 /\ id_test.observed = ID_FULL)
              => ~id_test.matched
        /\ (id_test.expected = ID_FULL /\ id_test.observed = ID_EMH00)
              => ~id_test.matched

\* C3 witness: the test was applied to expected 'EMH00' and observed
\* '1 EMH00 4921570', and matched.
C3_Witness ==
    /\ id_test.done
    /\ id_test.expected = ID_EMH00
    /\ id_test.observed = ID_FULL
    /\ id_test.matched

IsCall == op \in {"poll", "_discover"}

\* The bytes the SML fetch reconstructed, and its marker validation.
Reconstructed == START_SEQ \o fetch.payload \o fetch.trailer

ReadsDone == IsCall /\ fetch.caught # "SerialException" /\ fetch.log # <<>>

MarkerValid == ReadsDone /\ EndsWith(Slice8m4(Reconstructed), END_SEQ)

\* C4 (as claimed): in SmlReader.poll() and SmlReader._discover() a transport
\* error, a frame validation failure and a decode error signalled by the
\* decoder on a marker-valid frame each end the call with None and without
\* an exception.
C4_SmlFailuresYieldNothing ==
    (/\ cfg.protocol = "SML"
     /\ IsCall
     /\ \/ fetch.caught = "SerialException"
        \/ ReadsDone /\ ~MarkerValid
        \/ MarkerValid /\ parse_frame(Reconstructed).kind = "raise")
    => (ret.kind = "None" /\ exc = "none")

\* C5 (as claimed): when the fetched data are structurally valid but hold no
\* identification entry, poll() of either reader returns None and raises
\* nothing.
C5_NoIdentificationReturnsNothing ==
    (/\ IsPoll
     /\ fetch.exc = "none"
     /\ fetch.sample.kind = "Sample"
     /\ fetch.sample.meter_id.kind = "None")
    => (ret.kind = "None" /\ exc = "none")

\* C6 (as claimed): an SML poll whose payload read timed out before the end
\* marker returns None through the validation failure, and a text poll whose
\* response read returned nothing returns None; neither raises.
C6_TimeoutReturnsNothing ==
    /\ (/\ IsPoll
        /\ cfg.protocol = "SML"
        /\ ReadsDone
        /\ ~EndsWith(fetch.payload, END_SEQ))
       => (ret.kind = "None" /\ exc = "none" /\ fetch.caught = "AssertionError")
    /\ (/\ IsPoll
        /\ cfg.protocol = "PLAIN"
        /\ ReadsDone
        /\ fetch.trailer = <<>>)
       => (ret.kind = "None" /\ exc = "none")

\* C7: after poll() or _discover() of either reader has returned or raised,
\* on whichever path, the reader's serial port is not open, and a port the
\* call opened was closed as the call's last operation on it.
C7_PortClosedAfterCall ==
    IsCall =>
        /\ ~tty.is_open
        /\ (\E i \in DOMAIN fetch.log : fetch.log[i].ev = "open")
              => fetch.log[Len(fetch.log)].ev = "close"

\* C7 witness: a poll opened the port and a read in the with block raised.
C7_Witness ==
    /\ IsPoll
    /\ line.fail = "read_payload"
    /\ fetch.caught = "SerialException"
    /\ fetch.log # <<>>
    /\ fetch.log[1].ev = "open"
    /\ tty.exists
    /\ ~tty.is_open

\* What an operation of a text poll's log is, in the words of the claim.
EventKind(e) ==
    CASE e.ev = "baudrate" /\ e.baud = cfg.initial_baudrate -> "set_initial"
      [] e.ev = "baudrate" /\ e.baud = cfg.baudrate -> "switch"
      [] e.ev = "write" /\ e.bytes = Zeros(cfg.wakeup_zeros) -> "wakeup"
      [] e.ev = "write" /\ e.bytes = PLAIN_START_SEQ -> "request"
      [] e.ev = "readline" /\ e.baud = cfg.initial_baudrate -> "read_initial"
      [] e.ev = "readline" /\ e.baud = cfg.baudrate -> "read_working"
      [] OTHER -> e.ev

IsLineOperation(e) == e.ev \notin {"open", "close"}

LineOperations ==
    LET ops == SelectSeq(fetch.log, IsLineOperation)
    IN [i \in DOMAIN ops |-> EventKind(ops[i])]

HandshakeOrder ==
    <<"set_initial", "wakeup", "request", "flush", "read_initial", "switch",
      "read_working">>

IsPrefix(s, t) == Len(s) <= Len(t) /\ SubSeq(t, 1, Len(s)) = s

\* C8: in a text poll with a wakeup count above 0 the operations on the
\* line are, in this order: wakeup zeros written, request written, flush,
\* one line read at the initial rate, switch to the working rate, one line
\* read at the working rate (a transport error cuts the sequence short, it
\* never reorders it).
C8_HandshakeOrder ==
    (IsPoll /\ cfg.protocol = "PLAIN" /\ cfg.wakeup_zeros > 0) =>
        /\ IsPrefix(LineOperations, HandshakeOrder)
        /\ fetch.caught # "SerialException" => LineOperations = HandshakeOrder

\* C8 witness: a text poll with wakeup zeros ran to the end and returned a
\* Sample, leaving the handle at the working rate.
C8_Witness ==
    /\ IsPoll
    /\ cfg.protocol = "PLAIN"
    /\ cfg.wakeup_zeros > 0
    /\ ret.kind = "Sample"
    /\ LineOperations = HandshakeOrder
    /\ tty.baudrate = PLAIN_BAUDRATE

\* The request was written and a line was read before the rate was switched.
RequestAndIdentBeforeSwitch ==
    \E i, j, k \in DOMAIN LineOperations :
        /\ i < j /\ j < k
        /\ LineOperations[i] = "request"
        /\ LineOperations[j] = "read_initial"
        /\ LineOperations[k] = "switch"

\* C9 (as claimed): for every wakeup count, 0 included, a text poll writes
\* the request and reads the identification line before it switches rates,
\* and it completes without an unhandled fault.  (Polls that meet a
\* transport error, or the parse faults of a response without identification
\* or with a malformed number, are left out.)
C9_RequestForEveryWakeupCount ==
    (/\ IsPoll
     /\ cfg.protocol = "PLAIN"
     /\ fetch.caught # "SerialException"
     /\ exc \notin {"TypeError", "ValueError"})
    => (RequestAndIdentBeforeSwitch /\ exc = "none")

\* C10 (as claimed): SmlReader._discover() returns None when the fetched
\* frame holds no identification entry, and every Device it returns has an
\* identifier that is not None.
C10_DiscoverNeedsIdentification ==
    (op = "_discover" /\ cfg.protocol = "SML") =>
        /\ ret.kind = "Device" => ret.meter_id.kind # "None"
        /\ (fetch.sample.kind = "Sample" /\ fetch.sample.meter_id.kind = "None")
              => ret.kind = "None"

\* What the bytes on a line hold, read off the tokens in the order in which
\* they are sent: the identification values and the value entries.
IsIdToken(t) == t \in IdTokens

IsValueToken(t) == t \in EntryTokens \ IdTokens

IdsOnWire(bytes) ==
    LET ts == SelectSeq(bytes, IsIdToken)
    IN [i \in DOMAIN ts |-> StrV(IdOfToken(ts[i]))]

ChannelsOnWire(bytes) ==
    LET ts == SelectSeq(bytes, IsValueToken)
    IN [i \in DOMAIN ts |->
           [channel_name |-> EntryOfToken(ts[i]).objName,
            value |-> EntryOfToken(ts[i]).value,
            unit |-> IF EntryOfToken(ts[i]).hasUnit
                     THEN StrV(EntryOfToken(ts[i]).unit) ELSE NoneV]]

\* A candidate port at which a meter answers with an identified frame, one
\* at which nothing answers, one whose frame the decoder rejects.
MeterAt(port) ==
    /\ port.fault = "none"
    /\ port.line.fail = "none"
    /\ port.line = InTime(port.line.wire)
    /\ IdsOnWire(port.line.wire) # <<>>

NothingAt(port) ==
    port.fault = "none" /\ (port.line = QuietLine \/ port.line.fail = "open")

GarbledAt(port) ==
    /\ port.fault = "none"
    /\ port.line.fail = "none"
    /\ \E i \in DOMAIN port.line.wire : port.line.wire[i] = "zz"

ExpectedDevices ==
    LET answering == SelectSeq(ports, MeterAt)
    IN [i \in DOMAIN answering |->
           [kind |-> "Device", time |-> 0,
            meter_id |-> IdsOnWire(answering[i].line.wire)[1],
            channels |-> ChannelsOnWire(answering[i].line.wire),
            tty |-> answering[i].device, protocol |-> "SML"]]

\* C11: a detect() over candidates of which each either answers with a
\* meter or with nothing returns one Device per answering candidate, in the
\* order of the enumeration, each with the candidate's address, the
\* identifier and channels read there and the tag "SML"; the placeholder
\* "irrelevant" appears nowhere.
C11_DetectReturnsAnsweringPorts ==
    (/\ op = "detect"
     /\ cfg.protocol = "SML"
     /\ detected.kwargs = "default"
     /\ \A i \in DOMAIN ports : MeterAt(ports[i]) \/ NothingAt(ports[i]))
    => /\ exc = "none"
       /\ detected.devices = ExpectedDevices
       /\ \A i \in DOMAIN detected.devices :
              detected.devices[i].meter_id # StrV(ID_IRRELEVANT)

\* C11 witness: three candidates, not in the order of their names; the
\* first and the third answer with different meters, the second is silent.
C11_Witness ==
    /\ op = "detect"
    /\ cfg.protocol = "SML"
    /\ Len(ports) = 3
    /\ MeterAt(ports[1]) /\ NothingAt(ports[2]) /\ MeterAt(ports[3])
    /\ ports[1].device = "/dev/ttyUSB2"
    /\ ports[3].device = "/dev/ttyUSB0"
    /\ Len(detected.devices) = 2
    /\ detected.devices[1].tty = "/dev/ttyUSB2"
    /\ detected.devices[1].meter_id # detected.devices[2].meter_id

\* Every iteration of the detect constructed its probing reader.
ReadersConstructed ==
    /\ detected.kwargs = "default"
    /\ \A i \in DOMAIN ports : ports[i].fault = "none"

\* The first candidate at which the discovery routine raises, 0 if none
FirstGarbled ==
    LET garbled == {i \in DOMAIN ports : GarbledAt(ports[i])}
    IN IF garbled = {} THEN 0 ELSE CHOOSE i \in garbled : \A j \in garbled : i <= j

\* C12: detect() probes every candidate when none raises, also after
\* candidates that returned nothing; when the discovery routine raises at a
\* candidate the exception leaves detect(), no candidate after it is probed
\* and no list is returned.
C12_DetectSkipsNothingAndReraises ==
    (op = "detect" /\ cfg.protocol = "SML" /\ ReadersConstructed) =>
        IF FirstGarbled = 0
        THEN exc = "none" /\ detected.probed = Len(ports)
        ELSE /\ exc = "SmlParserError"
             /\ detected.probed = FirstGarbled
             /\ detected.devices = <<>>

\* C12 witness: nothing at the first candidate, the decoder raises at the
\* second, a meter is at the third.
C12_Witness ==
    /\ op = "detect"
    /\ cfg.protocol = "SML"
    /\ Len(ports) = 3
    /\ NothingAt(ports[1]) /\ GarbledAt(ports[2]) /\ MeterAt(ports[3])
    /\ exc = "SmlParserError"
    /\ detected.probed = 2

\* A candidate port at which a text meter answers the handshake.
PlainMeterAt(port) == port.line = PlainInTime(IdentLine \o Response0)

\* C13 (as claimed): PlainReader.detect() over candidates of which exactly
\* one answers the handshake with an identified response returns exactly one
\* Device, with the meter's identifier, that candidate's address, the tag
\* "PLAIN" and the channels read.
C13_PlainDetectFindsMeter ==
    (/\ op = "detect"
     /\ cfg.protocol = "PLAIN"
     /\ Cardinality({i \in DOMAIN ports : PlainMeterAt(ports[i])}) = 1)
    => /\ exc = "none"
       /\ Len(detected.devices) = 1
       /\ \E i \in DOMAIN ports :
             /\ PlainMeterAt(ports[i])
             /\ detected.devices[1] =
                   [kind |-> "Device", time |-> 0,
                    meter_id |-> StrV(ID_NINES),
                    channels |-> PlainParse(Response0).sample.channels,
                    tty |-> ports[i].device, protocol |-> "PLAIN"]

\* A handle as serial_for_url(..., do_not_open=True) makes it for the reader
NewHandle == [exists |-> TRUE, is_open |-> FALSE, baudrate |-> ReaderBaudrate(cfg)]

\* C14: initialize_tty() constructs a handle, closed, only when the reader
\* has none; with a handle it changes nothing; it does nothing on the line.
\* A poll() or _discover() of a reader that has a handle works on that
\* handle, at the rate the handle was left at, and makes no second one.
C14_InitializeTtyIdempotent ==
    [][/\ op' = "initialize_tty" =>
             /\ tty.exists => tty' = tty
             /\ ~tty.exists => tty' = NewHandle
             /\ ~tty'.is_open
             /\ fetch'.log = <<>>
       /\ (op' \in {"poll", "_discover"} /\ tty.exists /\ fetch'.log # <<>>) =>
             fetch'.log[1] = [ev |-> "open", baud |-> tty.baudrate, bytes |-> <<>>]
      ]_vars

\* C14 witness: initialize_tty() was called on a text reader whose handle
\* an earlier poll had left at the working rate; the handle is still that.
C14_Witness ==
    /\ op = "initialize_tty"
    /\ cfg.protocol = "PLAIN"
    /\ tty.exists
    /\ ~tty.is_open
    /\ tty.baudrate = PLAIN_BAUDRATE

\* C15: close_tty() on a reader with a handle closes the port and leaves the
\* reader without a handle; the initialize_tty() or poll() of a reader
\* without a handle makes a new one with the configured rate.
C15_CloseTtyUninitializes ==
    [][/\ (op' = "close_tty" /\ tty.exists) =>
             /\ tty' = NoHandle
             /\ exc' = "none"
             /\ fetch'.log = <<[ev |-> "close", baud |-> tty.baudrate, bytes |-> <<>>]>>
       /\ (op' = "initialize_tty" /\ ~tty.exists) => tty' = NewHandle
       /\ (op' = "poll" /\ ~tty.exists /\ fetch'.log # <<>>) =>
             /\ tty'.exists
             /\ fetch'.log[1] = [ev |-> "open", baud |-> ReaderBaudrate(cfg), bytes |-> <<>>]
      ]_vars

\* C15 witness: close_tty() closed the handle that a poll of a text reader
\* had left at the working rate, and the reader has no handle.
C15_Witness ==
    /\ op = "close_tty"
    /\ exc = "none"
    /\ cfg.protocol = "PLAIN"
    /\ fetch.log # <<>>
    /\ fetch.log[1].ev = "close"
    /\ fetch.log[1].baud = PLAIN_BAUDRATE
    /\ tty = NoHandle

IsReadEvent(e) == e.ev \in {"read_until", "read"}

IsResetEvent(e) == e.ev = "reset_input_buffer"

\* The bytes the reads of the call took from the line, in order
RECURSIVE Concat(_)
Concat(events) ==
    IF events = <<>> THEN <<>> ELSE Head(events).bytes \o Concat(Tail(events))

BytesRead == Concat(SelectSeq(fetch.log, IsReadEvent))

\* C16: an SML fetch that begins with more than 800 queued bytes discards
\* the buffer before its first read, and what it reads and parses comes from
\* the bytes behind the backlog; with 800 or fewer queued bytes nothing is
\* discarded and it reads from the oldest queued byte on.
C16_BacklogDiscardedAbove800 ==
    (/\ IsCall
     /\ cfg.protocol = "SML"
     /\ \E i \in DOMAIN fetch.log : IsReadEvent(fetch.log[i]))
    => IF line.in_waiting > 800
       THEN /\ \E i \in DOMAIN fetch.log :
                  /\ IsResetEvent(fetch.log[i])
                  /\ \A j \in 1..i : ~IsReadEvent(fetch.log[j])
            /\ IsPrefix(BytesRead,
                        SubSeq(line.wire, line.in_waiting + 1, Len(line.wire)))
       ELSE /\ \A i \in DOMAIN fetch.log : ~IsResetEvent(fetch.log[i])
            /\ IsPrefix(BytesRead, line.wire)

\* C16 witness: 801 bytes were queued, among them an older frame of another
\* meter; the poll returned the Sample of the frame that came after them.
C16_Witness ==
    /\ IsPoll
    /\ line.in_waiting = 801
    /\ IdsOnWire(SubSeq(line.wire, 1, line.in_waiting)) = <<StrV(ID_OTHER)>>
    /\ ret.kind = "Sample"
    /\ ret.meter_id = StrV(ID_FULL)

\* C17: however the bytes of a valid frame are cut into chunks, poll()
\* returns what it returns when the frame arrives in one piece: the same
\* Sample (meter_id and channels), or nothing for a meter that is not the
\* configured one.
C17_ChunkedEqualsSingleShot ==
    (op = "poll" /\ single.done) =>
        /\ ret = single.ret
        /\ exc = single.exc
        /\ exc = "none"
        /\ ret.kind = "Sample" =>
              /\ ret.meter_id = IdsOnWire(Flatten(chunks))[1]
              /\ ret.channels = ChannelsOnWire(Flatten(chunks))

\* C17 witness: the frame came in three chunks, cut inside the start marker
\* and between the end marker and the trailer's last byte, and the poll
\* returned the Sample of the one-piece delivery.
C17_Witness ==
    /\ op = "poll"
    /\ single.done
    /\ Len(chunks) = 3
    /\ Len(chunks[1]) < Len(START_SEQ)
    /\ Len(chunks[3]) < TrailerLen
    /\ ret.kind = "Sample"
    /\ ret = single.ret

\* The identification groups of a text response, in the order sent
IsIdGroup(g) == g.unit = <<>> /\ g.ident = ID_REGISTER

PlainIdsOnWire(bytes) ==
    LET gs == SelectSeq(FindAll(bytes, 1), IsIdGroup)
    IN [i \in DOMAIN gs |-> StrV(gs[i].value)]

\* The identifications in the data a fetch parsed, in the order sent
IdsFetched ==
    IF cfg.protocol = "SML" THEN IdsOnWire(fetch.payload)
    ELSE PlainIdsOnWire(fetch.trailer)

\* C18 (as claimed): when the data of one fetch hold several identification
\* entries, the Sample's meter_id is the first of them.
C18_FirstIdentificationWins ==
    (IsCall /\ fetch.sample.kind = "Sample" /\ IdsFetched # <<>>)
    => fetch.sample.meter_id = IdsFetched[1]

IsValueGroup(g) == ~IsIdGroup(g)

\* The value groups of a text response as channels, in the order sent
PlainChannelsOnWire(bytes) ==
    LET gs == SelectSeq(FindAll(bytes, 1), IsValueGroup)
    IN [i \in DOMAIN gs |->
           [channel_name |-> gs[i].ident,
            value |-> ParseFloat(gs[i].value).value,
            unit |-> StrV(gs[i].unit)]]

ChannelsFetched ==
    IF cfg.protocol = "SML" THEN ChannelsOnWire(fetch.payload)
    ELSE PlainChannelsOnWire(fetch.trailer)

\* C19: the channels of a Sample are the value entries of the frame (of all
\* its messages) or of the response line, each once, in the order in which
\* they were sent.
C19_ChannelsInEncounterOrder ==
    (IsCall /\ fetch.sample.kind = "Sample") =>
        /\ fetch.sample.channels = ChannelsFetched
        /\ ret.kind \in {"Sample", "Device"} => ret.channels = ChannelsFetched

\* C19 witness: a poll returned the Sample of a frame of two messages whose
\* three value entries are not in the order of their names.
C19_Witness ==
    /\ IsPoll
    /\ cfg.protocol = "SML"
    /\ ret.kind = "Sample"
    /\ Len(ret.channels) = 3
    /\ ret.channels[1].channel_name = OBIS_1670
    /\ ret.channels[2].channel_name = OBIS_MFR
    /\ ret.channels[3].channel_name = OBIS_180

\* C20 (as claimed): a Sample carries the time at which the poll that
\* produced it constructed it, so Samples of polls at different times have
\* different timestamps, later ones larger.
C20_SampleTimeIsPollTime ==
    /\ \A i \in DOMAIN polled :
          polled[i].ret.kind = "Sample" => polled[i].ret.time = polled[i].at
    /\ \A i, j \in DOMAIN polled :
          (/\ i < j
           /\ polled[i].ret.kind = "Sample"
           /\ polled[j].ret.kind = "Sample"
           /\ polled[i].at < polled[j].at)
          => polled[i].ret.time < polled[j].ret.time

\* The groups of a text response that carry a unit, in the order sent
HasUnit(g) == g.unit # <<>>

UnitGroups(bytes) == SelectSeq(FindAll(bytes, 1), HasUnit)

ChannelHasUnit(ch) == ch.unit # StrV(<<>>)

\* Every group of the response carries a decimal number (digits with at
\* most one dot), the form float() accepts.
IsDecimalGroup(g) == IsIdGroup(g) \/ ParseFloat(g.value).ok

AllDecimal(bytes) ==
    LET gs == FindAll(bytes, 1) IN \A i \in DOMAIN gs : IsDecimalGroup(gs[i])

\* A text fetch that read both lines and decoded them.
PlainDecoded ==
    /\ IsPoll
    /\ cfg.protocol = "PLAIN"
    /\ cfg.wakeup_zeros > 0
    /\ ReadsDone
    /\ Utf8Valid(fetch.payload)
    /\ Utf8Valid(fetch.trailer)

\* Channel('6.8', 6047.0, 'kWh')
CH_ENERGY ==
    [channel_name |-> <<"6", ".", "8">>,
     value |-> [kind |-> "float", str |-> <<>>, num |-> 6047],
     unit |-> [kind |-> "str", str |-> <<"k", "W", "h">>, num |-> 0]]

RateAt(h0, log, i) == ApplyLog(h0, SubSeq(log, 1, i - 1)).baudrate

EventsOf(log, kind) == {i \in DOMAIN log : log[i].ev = kind}

\* The operations of one text fetch on the handle h0 it started with: both
\* writes and the read of the identification line act at the initial rate,
\* the read of the response at the working rate.
RatesOfFetch(h0, log) ==
    LET writes == EventsOf(log, "write")
        reads == EventsOf(log, "readline")
    IN /\ \E i, j \in writes :
             /\ i < j
             /\ writes = {i, j}
             /\ log[i].bytes = Zeros(cfg.wakeup_zeros)
             /\ log[j].bytes = PLAIN_START_SEQ
             /\ RateAt(h0, log, i) = cfg.initial_baudrate
             /\ RateAt(h0, log, j) = cfg.initial_baudrate
       /\ \E i, j \in reads :
             /\ i < j
             /\ reads = {i, j}
             /\ \A w \in writes : w < i
             /\ RateAt(h0, log, i) = cfg.initial_baudrate
             /\ RateAt(h0, log, j) = cfg.baudrate

\* C22: every poll of a PlainReader with a wakeup count above 0, the first
\* and each later one on the same instance, writes the wakeup bytes and the
\* request and reads the identification line with the handle at the initial
\* rate and reads the response at the working rate, whatever rate the handle
\* kept from the previous poll.
C22_EveryPollStartsAtInitialRate ==
    [][(/\ polled' # polled
        /\ cfg.protocol = "PLAIN"
        /\ cfg.wakeup_zeros > 0)
       => RatesOfFetch(initialize_tty(tty, ReaderBaudrate(cfg)), fetch'.log)]_vars

\* C22 witness: the second poll of one instance returned a Sample and again
\* left the handle, which the first poll had left at the working rate, at
\* the working rate.
C22_Witness ==
    /\ cfg.protocol = "PLAIN"
    /\ cfg.wakeup_zeros > 0
    /\ cfg.initial_baudrate # cfg.baudrate
    /\ Len(polled) = 2
    /\ polled[1].ret.kind = "Sample"
    /\ polled[2].ret.kind = "Sample"
    /\ tty.exists
    /\ tty.baudrate = cfg.baudrate
    /\ RatesOfFetch([tty EXCEPT !.is_open = FALSE], fetch.log)

\* The value entries of a frame that follow an identification entry of
\* their own message, as channels, in the order sent.
RECURSIVE ChannelsAfterId(_, _)
ChannelsAfterId(bytes, accepted) ==
    IF bytes = <<>> THEN <<>>
    ELSE LET t == Head(bytes) IN
         IF t \in {"M", "X"} THEN ChannelsAfterId(Tail(bytes), FALSE)
         ELSE IF IsIdToken(t) THEN ChannelsAfterId(Tail(bytes), TRUE)
         ELSE IF IsValueToken(t) /\ accepted
         THEN ChannelsOnWire(<<t>>) \o ChannelsAfterId(Tail(bytes), accepted)
         ELSE ChannelsAfterId(Tail(bytes), accepted)

\* C23 (as claimed): the Sample of an SML frame holds a value entry of a
\* message only if an identification entry came before it in that message;
\* entries before the identification entry, or of a message without one,
\* are not appended.
C23_ChannelsOnlyAfterIdentification ==
    (IsCall /\ cfg.protocol = "SML" /\ fetch.sample.kind = "Sample")
    => fetch.sample.channels = ChannelsAfterId(fetch.payload, FALSE)

\* What the scan for the start marker, the first read_until of an SML
\* fetch, returned.
StartScan ==
    LET scans == EventsOf(fetch.log, "read_until")
        first == CHOOSE i \in scans : \A j \in scans : i <= j
    IN fetch.log[first].bytes

StartMarkerFound == EndsWith(StartScan, START_SEQ)

\* C24 (as claimed): when the scan for the start marker ended without
\* finding it, the attempt yields nothing: no Sample is built, the decoder
\* signals nothing and the call returns None, whatever the reads after the
\* scan returned.
C24_NoStartMarkerYieldsNothing ==
    (IsCall /\ cfg.protocol = "SML" /\ ReadsDone /\ ~StartMarkerFound)
    => /\ fetch.sample.kind = "None"
       /\ fetch.exc = "none"
       /\ ret.kind = "None"
       /\ exc = "none"

\* The fetch handed its frame to the decoder and the decoder did not look
\* away: it signalled an error or a Sample was built from what it returned.
DecoderAnswered == fetch.exc = "SmlParserError" \/ fetch.sample.kind = "Sample"

\* C25: in SmlReader's fetch, whenever the marker validation passes, the
\* payload read ended with the end marker and the trailer read returned
\* exactly 4 bytes; a trailer read that timed out with 0 to 3 bytes fails
\* the validation, so no frame with a short trailer reaches the decoder.
C25_ShortTrailerFailsValidation ==
    (IsCall /\ cfg.protocol = "SML" /\ ReadsDone)
    => /\ (MarkerValid \/ DecoderAnswered)
          => /\ EndsWith(fetch.payload, END_SEQ)
             /\ Len(fetch.trailer) = TrailerLen
       /\ Len(fetch.trailer) < TrailerLen
          => /\ ~MarkerValid
             /\ fetch.caught = "AssertionError"
             /\ fetch.sample.kind = "None"
             /\ fetch.exc = "none"
             /\ ret.kind = "None"

\* C25 witness: the payload read ended with the end marker, which followed
\* a body ending in 0x1b bytes, the trailer read timed out after 3 bytes, and
\* the validation failed.
C25_Witness ==
    /\ IsPoll
    /\ cfg.protocol = "SML"
    /\ ReadsDone
    /\ fetch.payload = <<"M">> \o END_SEQ
    /\ fetch.trailer = <<"ESC", "ESC", "ESC">>
    /\ fetch.caught = "AssertionError"
    /\ ret.kind = "None"

\* The fault that occurs at candidate i before its reader exists: reading
\* the address fails, or the constructor rejects the passed parameters.
OriginalFault(i) ==
    IF ports[i].fault = "device" THEN "AttributeError"
    ELSE IF detected.kwargs = "unacceptable" THEN "TypeError"
    ELSE "none"

\* The first candidate at which anything raises, 0 if none
FirstRaising ==
    LET raising == {i \in DOMAIN ports :
                       OriginalFault(i) # "none" \/ GarbledAt(ports[i])}
    IN IF raising = {} THEN 0 ELSE CHOOSE i \in raising : \A j \in raising : i <= j

\* C26 (as claimed): when a fault occurs at a candidate before its reader
\* exists, at the first candidate or at a later one, the exception that
\* leaves _detect_serial_devices is that fault.
C26_OriginalFaultEscapes ==
    (/\ op = "detect"
     /\ cfg.protocol = "SML"
     /\ FirstRaising # 0
     /\ OriginalFault(FirstRaising) # "none")
    => exc = OriginalFault(FirstRaising)

\* Configured ids without a legal character: the empty string, white space,
\* white space and non-ASCII letters.
EmptyCanonIds == {<<>>, ID_BLANK, <<"a-umlaut", " ", "eszett">>}

\* C27: the identity test with a configured id whose canonical form is
\* empty (the empty string, or only white space or non-ASCII characters)
\* accepts every observed identifier; the test rejects an observed
\* identifier only if the canonical form of the configured id is not empty.
C27_EmptyExpectedIdAcceptsAll ==
    id_test.done =>
        /\ id_test.expected \in EmptyCanonIds
              => id_test.stripped_expected = <<>> /\ id_test.matched
        /\ Canon(id_test.expected) = <<>> => id_test.matched
        /\ ~id_test.matched => id_test.stripped_expected # <<>>

\* C27 witness: a configured id of a blank between two non-ASCII letters
\* was tested against the observed '1 EMH00 4921570' and matched.
C27_Witness ==
    /\ id_test.done
    /\ id_test.expected = <<"a-umlaut", " ", "eszett">>
    /\ id_test.observed = ID_FULL
    /\ id_test.stripped_expected = <<>>
    /\ id_test.matched

\* The post calls for one uuid among the first n calls, in the order made
PostsFor(uuid, n) ==
    LET IsFor(p) == p.uuid = uuid IN SelectSeq(SubSeq(posted, 1, n), IsFor)

\* A timestamp argument in integer milliseconds
Millis(timestamp) ==
    IF timestamp.kind = "float" THEN (timestamp.num * 1000) \div 16
    ELSE timestamp.num

\* C28 (as claimed): get(uuid) returns the pair (timestamp in integer
\* milliseconds, value) of the most recent post(uuid, value, timestamp) for
\* that uuid, whatever was posted to other uuids.
C28_GetReturnsLastPost ==
    (got.done /\ PostsFor(got.uuid, got.after) # <<>>)
    => LET ps == PostsFor(got.uuid, got.after)
           last == ps[Len(ps)]
       IN /\ got.timestamp = Millis(last.timestamp)
          /\ got.value = last.value

====
